---- MODULE Spec2Model ----
(***************************************************************************)
(* A model of the frame pipeline of Object_detection_yolov8:               *)
(*   - BoundedFrameQueue (src/src/server/frame_queue.py) under concurrent  *)
(*     put / get / clear callers;                                          *)
(*   - CaptureWorker and the client main loop (src/src/client/);           *)
(*   - MetricsTracker's lock discipline (src/src/utils/metrics.py);        *)
(*   - the two transport send loops (src/src/communication/).              *)
(* Each component has its own specification; the variables of the other    *)
(* components stay at their initial value.                                 *)
(***************************************************************************)
EXTENDS Integers, Sequences, FiniteSets, TLC

\* ------------------------------------------------------------------ bounds
\* capacities 1..MaxCap are explored
MaxCap == 2
\* put / get / clear calls issued in one behaviour
MaxPuts == 3
MaxGets == 2
MaxClears == 1

\* the threads that call into one BoundedFrameQueue (server.py spawns
\* num_workers of them; two are enough for every race of put and get)
Threads == {1, 2}
\* drop_policy: "oldest", and two of the values that are not "oldest"
Policies == {"oldest", "newest", "reject"}

VARIABLES
    \* BoundedFrameQueue fields
    max_size, drop_policy, queue, frames_added, frames_dropped,
    \* per calling thread: position, argument, loaded counter, pending
    \* return value of put, last returned value
    pc, arg, tmp, pending, ret,
    \* history of the calls made on the queue
    nput, nget, nclear, callers, got, inserted, evicted,
    \* client process: stop event, CaptureWorker, frame queue, main loop,
    \* ZMQClient sockets, result queue, ResultHandler
    stop_event, cap_pc, capture, reconnect_attempts, wait_time, frame_id,
    frame_queue, main_pc, main_frame, frames_sent, connected, ingest_buf,
    result_buf, nresults, main_result, results_received, result_queue,
    rh_pc, rh_item, results_saved,
    \* MetricsTracker: lock, windows, counters, clock, and per calling
    \* thread the method entered, the depth of nested calls and position
    lock, latencies, frame_timestamps, last_fps_update, current_fps,
    total_frames, dropped_frames, queue_depths, now, nrecords,
    m_op, m_inner, m_pc, m_ret,
    \* ZMQServer result sender: running flag, egress socket, sender loop
    running, send_open, peer_up, egress_buf, s_pc, s_item,
    \* the server's main thread: position in ZMQServer.receive_frames,
    \* messages it has taken off the wire, position in the signal handler
    \* that runs InferenceServer.stop
    r_pc, nrecv, h_pc,
    \* history of the capture thread: the frame ids handed to the outbound
    \* queue, and how far the run is into "frame, reconnect, frame,
    \* exception, frame"
    handed, phase,
    \* history of the result handler: the results given to _save_json, in
    \* order
    saves,
    \* history of the result sender: the results given to the egress socket,
    \* in order
    sent,
    \* CaptureWorker.run: its locals last_frame_time and current_time, read
    \* from the clock "now" in tenths of a second
    last_frame_time, current_time,
    \* server process: stop event, InferenceWorker threads (position, frame
    \* taken, the fields read from it), output queue, history of the
    \* results put and of the frames that failed, metrics printer thread
    w_stop, w_pc, w_frame, w_meta, out_queue, emitted, failed, p_pc

qvars == <<max_size, drop_policy, queue, frames_added, frames_dropped,
           pc, arg, tmp, pending, ret,
           nput, nget, nclear, callers, got, inserted, evicted>>

cvars == <<stop_event, cap_pc, capture, reconnect_attempts, wait_time, frame_id,
           frame_queue, main_pc, main_frame, frames_sent, connected, ingest_buf,
           result_buf, nresults, main_result, results_received, result_queue,
           rh_pc, rh_item, results_saved>>

mvars == <<lock, latencies, frame_timestamps, last_fps_update, current_fps,
           total_frames, dropped_frames, queue_depths, now, nrecords,
           m_op, m_inner, m_pc, m_ret>>

svars == <<running, send_open, peer_up, egress_buf, s_pc, s_item,
           r_pc, nrecv, h_pc>>

tvars == <<last_frame_time, current_time>>

xvars == <<handed, phase, saves, sent, tvars>>

wvars == <<w_stop, w_pc, w_frame, w_meta, out_queue, emitted, failed,
           p_pc>>

vars == <<qvars, cvars, mvars, svars, xvars, wvars>>

\* ------------------------------------------------------- sequence helpers
Range(s) == {s[i] : i \in 1..Len(s)}

RECURSIVE SumLen(_, _)
SumLen(f, S) ==
    IF S = {} THEN 0
    ELSE LET x == CHOOSE y \in S : TRUE IN Len(f[x]) + SumLen(f, S \ {x})

\* the value a call returned: op is the method, ok the bool of put,
\* item the item of get (0 stands for None)
NoRet == [op |-> "none", ok |-> FALSE, item |-> 0]
PutRet(b) == [op |-> "put", ok |-> b, item |-> 0]
GetRet(x) == [op |-> "get", ok |-> FALSE, item |-> x]
ClearRet == [op |-> "clear", ok |-> FALSE, item |-> 0]

\* ------------------------------------------------------ BoundedFrameQueue
\* a full test that lets one item too many in
FullOffByOne == max_size > 0 /\ Len(queue) > max_size

\* queue.Queue(maxsize): put(block=False) raises Full when maxsize > 0 and
\* qsize() >= maxsize
Full == max_size > 0 /\ Len(queue) >= max_size

\* BoundedFrameQueue.size
size == Len(queue)

\* BoundedFrameQueue.is_empty
is_empty == Len(queue) = 0

\* BoundedFrameQueue.__init__, lines 20-22, and the threads before any call
QStart ==
    /\ queue = <<>>
    /\ frames_added = 0
    /\ frames_dropped = 0
    /\ pc = [t \in Threads |-> "idle"]
    /\ arg = [t \in Threads |-> 0]
    /\ tmp = [t \in Threads |-> 0]
    /\ pending = [t \in Threads |-> FALSE]
    /\ ret = [t \in Threads |-> NoRet]
    /\ nput = 0
    /\ nget = 0
    /\ nclear = 0
    /\ callers = {}
    /\ got = [t \in Threads |-> <<>>]
    /\ inserted = {}
    /\ evicted = {}

\* BoundedFrameQueue.__init__, lines 18-19
QInit ==
    /\ max_size \in 1..MaxCap
    /\ drop_policy \in Policies
    /\ QStart

\* a thread calls put(item); items are numbered 1, 2, ... in call order
CallPut(t) ==
    /\ pc[t] = "idle"
    /\ nput < MaxPuts
    /\ nput' = nput + 1
    /\ arg' = [arg EXCEPT ![t] = nput + 1]
    /\ pc' = [pc EXCEPT ![t] = "put_try"]
    /\ callers' = callers \cup {t}
    /\ ret' = [ret EXCEPT ![t] = NoRet]
    /\ UNCHANGED <<max_size, drop_policy, queue, frames_added, frames_dropped,
                   tmp, pending, nget, nclear, got, inserted, evicted>>
    /\ UNCHANGED <<cvars, mvars, svars, xvars, wvars>>

\* a put that takes the eviction branch whatever the policy is
PutTryAlwaysEvict(t) ==
    /\ pc[t] = "put_try"
    /\ IF ~Full
       THEN /\ queue' = Append(queue, arg[t])
            /\ inserted' = inserted \cup {arg[t]}
            /\ pc' = [pc EXCEPT ![t] = "added_load"]
            /\ UNCHANGED pending
       ELSE /\ pc' = [pc EXCEPT ![t] = "evict_get"]
            /\ pending' = [pending EXCEPT ![t] = FALSE]
            /\ UNCHANGED <<queue, inserted>>
    /\ UNCHANGED <<max_size, drop_policy, frames_added, frames_dropped,
                   arg, tmp, ret, nput, nget, nclear, callers, got, evicted>>
    /\ UNCHANGED <<cvars, mvars, svars, xvars, wvars>>

\* line 29: self.queue.put(item, block=False); on queue.Full the handler of
\* line 33 looks at the policy (line 36)
PutTry(t) ==
    /\ pc[t] = "put_try"
    /\ IF ~Full
       THEN /\ queue' = Append(queue, arg[t])
            /\ inserted' = inserted \cup {arg[t]}
            /\ pc' = [pc EXCEPT ![t] = "added_load"]
            /\ UNCHANGED pending
       ELSE /\ pc' = [pc EXCEPT ![t] =
                        IF drop_policy = "oldest" THEN "evict_get" ELSE "dropped_load"]
            /\ pending' = [pending EXCEPT ![t] = FALSE]
            /\ UNCHANGED <<queue, inserted>>
    /\ UNCHANGED <<max_size, drop_policy, frames_added, frames_dropped,
                   arg, tmp, ret, nput, nget, nclear, callers, got, evicted>>
    /\ UNCHANGED <<cvars, mvars, svars, xvars, wvars>>

\* line 30: self.frames_added += 1, the read of the attribute
PutAddLoad(t) ==
    /\ pc[t] = "added_load"
    /\ tmp' = [tmp EXCEPT ![t] = frames_added]
    /\ pc' = [pc EXCEPT ![t] = "added_store"]
    /\ UNCHANGED <<max_size, drop_policy, queue, frames_added, frames_dropped,
                   arg, pending, ret, nput, nget, nclear, callers, got,
                   inserted, evicted>>
    /\ UNCHANGED <<cvars, mvars, svars, xvars, wvars>>

\* a put that inserts and returns True without counting the frame as added
PutAddStoreNoCount(t) ==
    /\ pc[t] = "added_store"
    /\ frames_added' = frames_added
    /\ ret' = [ret EXCEPT ![t] = PutRet(TRUE)]
    /\ pc' = [pc EXCEPT ![t] = "idle"]
    /\ tmp' = [tmp EXCEPT ![t] = 0]
    /\ UNCHANGED <<max_size, drop_policy, queue, frames_dropped,
                   arg, pending, nput, nget, nclear, callers, got,
                   inserted, evicted>>
    /\ UNCHANGED <<cvars, mvars, svars, xvars, wvars>>

\* line 30: the write of the attribute, then line 32: return True
PutAddStore(t) ==
    /\ pc[t] = "added_store"
    /\ frames_added' = tmp[t] + 1
    /\ ret' = [ret EXCEPT ![t] = PutRet(TRUE)]
    /\ pc' = [pc EXCEPT ![t] = "idle"]
    /\ tmp' = [tmp EXCEPT ![t] = 0]
    /\ UNCHANGED <<max_size, drop_policy, queue, frames_dropped,
                   arg, pending, nput, nget, nclear, callers, got,
                   inserted, evicted>>
    /\ UNCHANGED <<cvars, mvars, svars, xvars, wvars>>

\* an eviction that removes the newest entry instead of the oldest
EvictGetNewest(t) ==
    /\ pc[t] = "evict_get"
    /\ IF Len(queue) > 0
       THEN /\ queue' = SubSeq(queue, 1, Len(queue) - 1)
            /\ evicted' = evicted \cup {queue[Len(queue)]}
            /\ pc' = [pc EXCEPT ![t] = "evict_put"]
            /\ UNCHANGED pending
       ELSE /\ pending' = [pending EXCEPT ![t] = FALSE]
            /\ pc' = [pc EXCEPT ![t] = "dropped_load"]
            /\ UNCHANGED <<queue, evicted>>
    /\ UNCHANGED <<max_size, drop_policy, frames_added, frames_dropped,
                   arg, tmp, ret, nput, nget, nclear, callers, got, inserted>>
    /\ UNCHANGED <<cvars, mvars, svars, xvars, wvars>>

\* line 39: self.queue.get(block=False); queue.Empty is caught by the bare
\* except of line 43
EvictGet(t) ==
    /\ pc[t] = "evict_get"
    /\ IF Len(queue) > 0
       THEN /\ queue' = Tail(queue)
            /\ evicted' = evicted \cup {Head(queue)}
            /\ pc' = [pc EXCEPT ![t] = "evict_put"]
            /\ UNCHANGED pending
       ELSE /\ pending' = [pending EXCEPT ![t] = FALSE]
            /\ pc' = [pc EXCEPT ![t] = "dropped_load"]
            /\ UNCHANGED <<queue, evicted>>
    /\ UNCHANGED <<max_size, drop_policy, frames_added, frames_dropped,
                   arg, tmp, ret, nput, nget, nclear, callers, got, inserted>>
    /\ UNCHANGED <<cvars, mvars, svars, xvars, wvars>>

\* line 40: self.queue.put(item, block=False); queue.Full is caught by the
\* bare except of line 43
EvictPut(t) ==
    /\ pc[t] = "evict_put"
    /\ IF ~Full
       THEN /\ queue' = Append(queue, arg[t])
            /\ inserted' = inserted \cup {arg[t]}
            /\ pending' = [pending EXCEPT ![t] = TRUE]
       ELSE /\ pending' = [pending EXCEPT ![t] = FALSE]
            /\ UNCHANGED <<queue, inserted>>
    /\ pc' = [pc EXCEPT ![t] = "dropped_load"]
    /\ UNCHANGED <<max_size, drop_policy, frames_added, frames_dropped,
                   arg, tmp, ret, nput, nget, nclear, callers, got, evicted>>
    /\ UNCHANGED <<cvars, mvars, svars, xvars, wvars>>

\* lines 41, 44, 48: self.frames_dropped += 1, the read of the attribute
DropLoad(t) ==
    /\ pc[t] = "dropped_load"
    /\ tmp' = [tmp EXCEPT ![t] = frames_dropped]
    /\ pc' = [pc EXCEPT ![t] = "dropped_store"]
    /\ UNCHANGED <<max_size, drop_policy, queue, frames_added, frames_dropped,
                   arg, pending, ret, nput, nget, nclear, callers, got,
                   inserted, evicted>>
    /\ UNCHANGED <<cvars, mvars, svars, xvars, wvars>>

\* a put that returns from its drop branch without counting the drop
DropStoreNoCount(t) ==
    /\ pc[t] = "dropped_store"
    /\ frames_dropped' = frames_dropped
    /\ ret' = [ret EXCEPT ![t] = PutRet(pending[t])]
    /\ pc' = [pc EXCEPT ![t] = "idle"]
    /\ tmp' = [tmp EXCEPT ![t] = 0]
    /\ pending' = [pending EXCEPT ![t] = FALSE]
    /\ UNCHANGED <<max_size, drop_policy, queue, frames_added,
                   arg, nput, nget, nclear, callers, got,
                   inserted, evicted>>
    /\ UNCHANGED <<cvars, mvars, svars, xvars, wvars>>

\* a displacing put that counts the item it inserted as added as well
DropStoreCountsAdded(t) ==
    /\ pc[t] = "dropped_store"
    /\ frames_dropped' = tmp[t] + 1
    /\ frames_added' = IF pending[t] THEN frames_added + 1 ELSE frames_added
    /\ ret' = [ret EXCEPT ![t] = PutRet(pending[t])]
    /\ pc' = [pc EXCEPT ![t] = "idle"]
    /\ tmp' = [tmp EXCEPT ![t] = 0]
    /\ pending' = [pending EXCEPT ![t] = FALSE]
    /\ UNCHANGED <<max_size, drop_policy, queue,
                   arg, nput, nget, nclear, callers, got,
                   inserted, evicted>>
    /\ UNCHANGED <<cvars, mvars, svars, xvars, wvars>>

\* lines 41, 44, 48: the write of the attribute, then the return of lines
\* 42 (True), 45 and 49 (False)
DropStore(t) ==
    /\ pc[t] = "dropped_store"
    /\ frames_dropped' = tmp[t] + 1
    /\ ret' = [ret EXCEPT ![t] = PutRet(pending[t])]
    /\ pc' = [pc EXCEPT ![t] = "idle"]
    /\ tmp' = [tmp EXCEPT ![t] = 0]
    /\ pending' = [pending EXCEPT ![t] = FALSE]
    /\ UNCHANGED <<max_size, drop_policy, queue, frames_added,
                   arg, nput, nget, nclear, callers, got,
                   inserted, evicted>>
    /\ UNCHANGED <<cvars, mvars, svars, xvars, wvars>>

\* a thread calls get(timeout) with a finite timeout
CallGet(t) ==
    /\ pc[t] = "idle"
    /\ nget < MaxGets
    /\ nget' = nget + 1
    /\ pc' = [pc EXCEPT ![t] = "get_wait"]
    /\ callers' = callers \cup {t}
    /\ ret' = [ret EXCEPT ![t] = NoRet]
    /\ UNCHANGED <<max_size, drop_policy, queue, frames_added, frames_dropped,
                   arg, tmp, pending, nput, nclear, got, inserted, evicted>>
    /\ UNCHANGED <<cvars, mvars, svars, xvars, wvars>>

\* a get that returns the head and leaves it in the queue
GetTakePeek(t) ==
    /\ pc[t] = "get_wait"
    /\ Len(queue) > 0
    /\ got' = [got EXCEPT ![t] = Append(@, Head(queue))]
    /\ ret' = [ret EXCEPT ![t] = GetRet(Head(queue))]
    /\ pc' = [pc EXCEPT ![t] = "idle"]
    /\ UNCHANGED <<max_size, drop_policy, queue, frames_added, frames_dropped,
                   arg, tmp, pending, nput, nget, nclear, callers,
                   inserted, evicted>>
    /\ UNCHANGED <<cvars, mvars, svars, xvars, wvars>>

\* a get that returns the newest entry
GetTakeLast(t) ==
    /\ pc[t] = "get_wait"
    /\ Len(queue) > 0
    /\ queue' = SubSeq(queue, 1, Len(queue) - 1)
    /\ got' = [got EXCEPT ![t] = Append(@, queue[Len(queue)])]
    /\ ret' = [ret EXCEPT ![t] = GetRet(queue[Len(queue)])]
    /\ pc' = [pc EXCEPT ![t] = "idle"]
    /\ UNCHANGED <<max_size, drop_policy, frames_added, frames_dropped,
                   arg, tmp, pending, nput, nget, nclear, callers,
                   inserted, evicted>>
    /\ UNCHANGED <<cvars, mvars, svars, xvars, wvars>>

\* line 54: self.queue.get(block=True, timeout=timeout) finds an item
GetTake(t) ==
    /\ pc[t] = "get_wait"
    /\ Len(queue) > 0
    /\ queue' = Tail(queue)
    /\ got' = [got EXCEPT ![t] = Append(@, Head(queue))]
    /\ ret' = [ret EXCEPT ![t] = GetRet(Head(queue))]
    /\ pc' = [pc EXCEPT ![t] = "idle"]
    /\ UNCHANGED <<max_size, drop_policy, frames_added, frames_dropped,
                   arg, tmp, pending, nput, nget, nclear, callers,
                   inserted, evicted>>
    /\ UNCHANGED <<cvars, mvars, svars, xvars, wvars>>

\* a get that counts its timeout as a dropped frame
GetTimeoutCounts(t) ==
    /\ pc[t] = "get_wait"
    /\ Len(queue) = 0
    /\ frames_dropped' = frames_dropped + 1
    /\ ret' = [ret EXCEPT ![t] = GetRet(0)]
    /\ pc' = [pc EXCEPT ![t] = "idle"]
    /\ UNCHANGED <<max_size, drop_policy, queue, frames_added,
                   arg, tmp, pending, nput, nget, nclear, callers, got,
                   inserted, evicted>>
    /\ UNCHANGED <<cvars, mvars, svars, xvars, wvars>>

\* lines 56-58: the queue stayed empty for the timeout, queue.Empty is
\* caught and None returned
GetTimeout(t) ==
    /\ pc[t] = "get_wait"
    /\ Len(queue) = 0
    /\ ret' = [ret EXCEPT ![t] = GetRet(0)]
    /\ pc' = [pc EXCEPT ![t] = "idle"]
    /\ UNCHANGED <<max_size, drop_policy, queue, frames_added, frames_dropped,
                   arg, tmp, pending, nput, nget, nclear, callers, got,
                   inserted, evicted>>
    /\ UNCHANGED <<cvars, mvars, svars, xvars, wvars>>

\* a thread calls clear()
CallClear(t) ==
    /\ pc[t] = "idle"
    /\ nclear < MaxClears
    /\ nclear' = nclear + 1
    /\ pc' = [pc EXCEPT ![t] = "clear_check"]
    /\ callers' = callers \cup {t}
    /\ ret' = [ret EXCEPT ![t] = NoRet]
    /\ UNCHANGED <<max_size, drop_policy, queue, frames_added, frames_dropped,
                   arg, tmp, pending, nput, nget, got, inserted, evicted>>
    /\ UNCHANGED <<cvars, mvars, svars, xvars, wvars>>

\* line 70: while not self.queue.empty()
ClearCheck(t) ==
    /\ pc[t] = "clear_check"
    /\ IF is_empty
       THEN /\ pc' = [pc EXCEPT ![t] = "idle"]
            /\ ret' = [ret EXCEPT ![t] = ClearRet]
       ELSE /\ pc' = [pc EXCEPT ![t] = "clear_get"]
            /\ UNCHANGED ret
    /\ UNCHANGED <<max_size, drop_policy, queue, frames_added, frames_dropped,
                   arg, tmp, pending, nput, nget, nclear, callers, got,
                   inserted, evicted>>
    /\ UNCHANGED <<cvars, mvars, svars, xvars, wvars>>

\* a clear that removes one item and returns
ClearGetOnce(t) ==
    /\ pc[t] = "clear_get"
    /\ IF Len(queue) > 0
       THEN /\ queue' = Tail(queue)
            /\ evicted' = evicted \cup {Head(queue)}
       ELSE UNCHANGED <<queue, evicted>>
    /\ pc' = [pc EXCEPT ![t] = "idle"]
    /\ ret' = [ret EXCEPT ![t] = ClearRet]
    /\ UNCHANGED <<max_size, drop_policy, frames_added, frames_dropped,
                   arg, tmp, pending, nput, nget, nclear, callers, got, inserted>>
    /\ UNCHANGED <<cvars, mvars, svars, xvars, wvars>>

\* lines 71-74: self.queue.get(block=False); queue.Empty breaks the loop
ClearGet(t) ==
    /\ pc[t] = "clear_get"
    /\ IF Len(queue) > 0
       THEN /\ queue' = Tail(queue)
            /\ evicted' = evicted \cup {Head(queue)}
            /\ pc' = [pc EXCEPT ![t] = "clear_check"]
            /\ UNCHANGED ret
       ELSE /\ pc' = [pc EXCEPT ![t] = "idle"]
            /\ ret' = [ret EXCEPT ![t] = ClearRet]
            /\ UNCHANGED <<queue, evicted>>
    /\ UNCHANGED <<max_size, drop_policy, frames_added, frames_dropped,
                   arg, tmp, pending, nput, nget, nclear, callers, got, inserted>>
    /\ UNCHANGED <<cvars, mvars, svars, xvars, wvars>>


QNext ==
    \E t \in Threads :
        \/ CallPut(t)
        \/ PutTry(t)
        \/ PutAddLoad(t)
        \/ PutAddStore(t)
        \/ EvictGet(t)
        \/ EvictPut(t)
        \/ DropLoad(t)
        \/ DropStore(t)
        \/ CallGet(t)
        \/ GetTake(t)
        \/ GetTimeout(t)
        \/ CallClear(t)
        \/ ClearCheck(t)
        \/ ClearGet(t)


\* ---------------------------------------------------------- client process
\* capacity of the client's queue.Queue instances (config 'queue_size')
QueueSize == 2
\* frames one capture source emits in one behaviour
MaxFrames == 3
\* consecutive failed connects the source is made to suffer (the backoff
\* reaches its cap at the fifth)
MaxAttempts == 5
\* results the server delivers to the client in one behaviour
MaxResults == 2
\* messages a ZeroMQ socket buffers before send would wait (its high
\* water mark)
SendHWM == 1

\* CaptureWorker.__init__: reconnect_interval default
ReconnectInterval == 2
\* CaptureWorker._reconnect: the cap of the backoff
BackoffCap == 30

Min(a, b) == IF a < b THEN a ELSE b

\* a backoff that keeps doubling
WaitTimeUncapped(n) == ReconnectInterval * (2 ^ (n - 1))

\* CaptureWorker._reconnect, line 105
WaitTime(n) == Min(ReconnectInterval * (2 ^ (n - 1)), BackoffCap)

\* outcomes of CaptureWorker._connect
ConnectOutcomes == {"ok", "not_opened", "test_read_failed", "error"}

\* the handle self.capture after a release (or None when never created)
Released(c) == IF c = "none" THEN "none" ELSE "closed"

\* the run so far, as a position in "frame, reconnect, frame, exception,
\* frame": 0 nothing yet, 1 a frame was handed over, 2 a reconnect came
\* after it, 3 a frame after that, 4 an exception after that, 5 a frame
\* after that
PhaseAfter(event) ==
    CASE event = "frame" /\ phase \in {0, 2, 4} -> phase + 1
      [] event = "reconnect" /\ phase = 1 -> 2
      [] event = "error" /\ phase = 3 -> 4
      [] OTHER -> phase

ClientInit ==
    /\ handed = <<>>
    /\ saves = <<>>
    /\ sent = <<>>
    /\ last_frame_time = 0
    /\ current_time = 0
    /\ phase = 0
    /\ stop_event = FALSE
    /\ cap_pc = "disconnected"
    /\ capture = "none"
    /\ reconnect_attempts = 0
    /\ wait_time = 0
    /\ frame_id = 0
    /\ frame_queue = <<>>
    /\ main_pc = "loop"
    /\ main_frame = -1
    /\ frames_sent = 0
    /\ connected = TRUE
    /\ ingest_buf = <<>>
    /\ result_buf = <<>>
    /\ nresults = 0
    /\ main_result = -1
    /\ results_received = 0
    /\ result_queue = <<>>
    /\ rh_pc = "loop"
    /\ rh_item = -1
    /\ results_saved = 0

\* CaptureWorker.run, line 119: the thread starts and goes to its initial
\* connection
CaptureStart ==
    /\ cap_pc = "disconnected"
    /\ cap_pc' = "connect_init"
    /\ UNCHANGED <<stop_event, capture, reconnect_attempts, wait_time, frame_id,
                   frame_queue, main_pc, main_frame, frames_sent, connected,
                   ingest_buf, result_buf, nresults, main_result,
                   results_received, result_queue, rh_pc, rh_item, results_saved>>
    /\ UNCHANGED <<qvars, mvars, svars, xvars, wvars>>

\* a connect that clears the attempt counter whatever its outcome
ConnectResetsAlways ==
    /\ cap_pc \in {"connect_init", "connect_re"}
    /\ \E o \in ConnectOutcomes :
        /\ (o # "ok") => reconnect_attempts < MaxAttempts
        /\ capture' = CASE o = "ok" -> "open"
                        [] o = "error" -> capture
                        [] OTHER -> "closed"
        /\ reconnect_attempts' = 0
        /\ cap_pc' = IF o = "ok" THEN "loop"
                     ELSE IF cap_pc = "connect_init" THEN "exited" ELSE "loop"
    /\ UNCHANGED <<stop_event, wait_time, frame_id,
                   frame_queue, main_pc, main_frame, frames_sent, connected,
                   ingest_buf, result_buf, nresults, main_result,
                   results_received, result_queue, rh_pc, rh_item, results_saved>>
    /\ UNCHANGED <<qvars, mvars, svars, xvars, wvars>>

\* CaptureWorker._connect, called from run line 122 (initial) or from
\* _reconnect line 113; run returns on an initial failure (line 124) and
\* continues its loop on a later one (line 145)
Connect ==
    /\ cap_pc \in {"connect_init", "connect_re"}
    /\ \E o \in ConnectOutcomes :
        /\ (o # "ok") => reconnect_attempts < MaxAttempts
        /\ capture' = CASE o = "ok" -> "open"
                        [] o = "error" -> capture
                        [] OTHER -> "closed"
        /\ reconnect_attempts' = IF o = "ok" THEN 0 ELSE reconnect_attempts
        /\ cap_pc' = IF o = "ok" THEN "loop"
                     ELSE IF cap_pc = "connect_init" THEN "exited" ELSE "loop"
    /\ UNCHANGED <<stop_event, wait_time, frame_id,
                   frame_queue, main_pc, main_frame, frames_sent, connected,
                   ingest_buf, result_buf, nresults, main_result,
                   results_received, result_queue, rh_pc, rh_item, results_saved>>
    /\ UNCHANGED <<qvars, mvars, svars, xvars, wvars>>

\* run, line 129: while not self.stop_event.is_set()
CaptureLoopCheck ==
    /\ cap_pc = "loop"
    /\ cap_pc' = IF stop_event THEN "cleanup" ELSE "rate"
    /\ UNCHANGED <<stop_event, capture, reconnect_attempts, wait_time, frame_id,
                   frame_queue, main_pc, main_frame, frames_sent, connected,
                   ingest_buf, result_buf, nresults, main_result,
                   results_received, result_queue, rh_pc, rh_item, results_saved>>
    /\ UNCHANGED <<qvars, mvars, svars, xvars, wvars>>

\* run, lines 132-136: sleep for the rest of the frame interval and
\* continue, or go on to read
RateLimit ==
    /\ cap_pc = "rate"
    /\ \E elapsed \in BOOLEAN :
        cap_pc' = IF elapsed THEN "read" ELSE "loop"
    /\ UNCHANGED <<stop_event, capture, reconnect_attempts, wait_time, frame_id,
                   frame_queue, main_pc, main_frame, frames_sent, connected,
                   ingest_buf, result_buf, nresults, main_result,
                   results_received, result_queue, rh_pc, rh_item, results_saved>>
    /\ UNCHANGED <<qvars, mvars, svars, xvars, wvars>>

\* run, lines 139-146: self.capture.read(); a handle that is not open
\* yields no frame
CaptureRead ==
    /\ cap_pc = "read"
    /\ \E good \in BOOLEAN :
        /\ good => (capture = "open" /\ frame_id < MaxFrames)
        /\ cap_pc' = IF good THEN "process" ELSE "reconnect"
    /\ UNCHANGED <<stop_event, capture, reconnect_attempts, wait_time, frame_id,
                   frame_queue, main_pc, main_frame, frames_sent, connected,
                   ingest_buf, result_buf, nresults, main_result,
                   results_received, result_queue, rh_pc, rh_item, results_saved>>
    /\ UNCHANGED <<qvars, mvars, svars, xvars, wvars>>

\* a reconnect that starts the numbering of the frames again
ReconnectResetsId ==
    /\ cap_pc = "reconnect"
    /\ capture' = Released(capture)
    /\ reconnect_attempts' = reconnect_attempts + 1
    /\ wait_time' = WaitTime(reconnect_attempts + 1)
    /\ cap_pc' = "backoff"
    /\ phase' = PhaseAfter("reconnect")
    /\ frame_id' = 0
    /\ UNCHANGED <<stop_event,
                   frame_queue, main_pc, main_frame, frames_sent, connected,
                   ingest_buf, result_buf, nresults, main_result,
                   results_received, result_queue, rh_pc, rh_item, results_saved>>
    /\ UNCHANGED <<qvars, mvars, svars, handed, saves, sent, tvars, wvars>>

\* a reconnect that does not release the handle it holds
ReconnectKeepsHandle ==
    /\ cap_pc = "reconnect"
    /\ capture' = capture
    /\ reconnect_attempts' = reconnect_attempts + 1
    /\ wait_time' = WaitTime(reconnect_attempts + 1)
    /\ cap_pc' = "backoff"
    /\ phase' = PhaseAfter("reconnect")
    /\ UNCHANGED <<stop_event, frame_id,
                   frame_queue, main_pc, main_frame, frames_sent, connected,
                   ingest_buf, result_buf, nresults, main_result,
                   results_received, result_queue, rh_pc, rh_item, results_saved>>
    /\ UNCHANGED <<qvars, mvars, svars, handed, saves, sent, tvars, wvars>>

\* _reconnect, lines 101-110: release the handle, count the attempt,
\* compute the wait
Reconnect ==
    /\ cap_pc = "reconnect"
    /\ capture' = Released(capture)
    /\ reconnect_attempts' = reconnect_attempts + 1
    /\ wait_time' = WaitTime(reconnect_attempts + 1)
    /\ cap_pc' = "backoff"
    /\ phase' = PhaseAfter("reconnect")
    /\ UNCHANGED <<stop_event, frame_id,
                   frame_queue, main_pc, main_frame, frames_sent, connected,
                   ingest_buf, result_buf, nresults, main_result,
                   results_received, result_queue, rh_pc, rh_item, results_saved>>
    /\ UNCHANGED <<qvars, mvars, svars, handed, saves, sent, tvars, wvars>>

\* _reconnect, lines 112-113: time.sleep(wait_time) ends, _connect follows
BackoffDone ==
    /\ cap_pc = "backoff"
    /\ cap_pc' = "connect_re"
    /\ UNCHANGED <<stop_event, capture, reconnect_attempts, wait_time, frame_id,
                   frame_queue, main_pc, main_frame, frames_sent, connected,
                   ingest_buf, result_buf, nresults, main_result,
                   results_received, result_queue, rh_pc, rh_item, results_saved>>
    /\ UNCHANGED <<qvars, mvars, svars, xvars, wvars>>

\* run, lines 149-165: resize, debug write, build frame_data; an exception
\* there is caught at line 186
CaptureProcess ==
    /\ cap_pc = "process"
    /\ \E raised \in BOOLEAN :
        /\ cap_pc' = IF raised THEN "error_sleep" ELSE "put"
        /\ phase' = IF raised THEN PhaseAfter("error") ELSE phase
    /\ UNCHANGED <<stop_event, capture, reconnect_attempts, wait_time, frame_id,
                   frame_queue, main_pc, main_frame, frames_sent, connected,
                   ingest_buf, result_buf, nresults, main_result,
                   results_received, result_queue, rh_pc, rh_item, results_saved>>
    /\ UNCHANGED <<qvars, mvars, svars, handed, saves, sent, tvars, wvars>>

\* run, lines 186-189: log, time.sleep(1), continue
CaptureErrorSleep ==
    /\ cap_pc = "error_sleep"
    /\ cap_pc' = "loop"
    /\ UNCHANGED <<stop_event, capture, reconnect_attempts, wait_time, frame_id,
                   frame_queue, main_pc, main_frame, frames_sent, connected,
                   ingest_buf, result_buf, nresults, main_result,
                   results_received, result_queue, rh_pc, rh_item, results_saved>>
    /\ UNCHANGED <<qvars, mvars, svars, xvars, wvars>>

\* run, lines 168 and 181: self.frame_queue.put(frame_data) on the
\* queue.Queue(maxsize=queue_size) of client.py line 39, a put that waits
\* while the queue is full; then self.frame_id += 1
CapturePut ==
    /\ cap_pc = "put"
    /\ Len(frame_queue) < QueueSize
    /\ frame_queue' = Append(frame_queue, frame_id)
    /\ frame_id' = frame_id + 1
    /\ cap_pc' = "loop"
    /\ handed' = Append(handed, frame_id)
    /\ UNCHANGED <<saves, sent, tvars>>
    /\ phase' = PhaseAfter("frame")
    /\ UNCHANGED <<stop_event, capture, reconnect_attempts, wait_time,
                   main_pc, main_frame, frames_sent, connected,
                   ingest_buf, result_buf, nresults, main_result,
                   results_received, result_queue, rh_pc, rh_item, results_saved>>
    /\ UNCHANGED <<qvars, mvars, svars, wvars>>

\* run, lines 192-195: release the handle, the thread ends
CaptureCleanup ==
    /\ cap_pc = "cleanup"
    /\ capture' = Released(capture)
    /\ cap_pc' = "stopped"
    /\ UNCHANGED <<stop_event, reconnect_attempts, wait_time, frame_id,
                   frame_queue, main_pc, main_frame, frames_sent, connected,
                   ingest_buf, result_buf, nresults, main_result,
                   results_received, result_queue, rh_pc, rh_item, results_saved>>
    /\ UNCHANGED <<qvars, mvars, svars, xvars, wvars>>

CaptureStep ==
    \/ CaptureStart
    \/ Connect
    \/ CaptureLoopCheck
    \/ RateLimit
    \/ CaptureRead
    \/ Reconnect
    \/ BackoffDone
    \/ CaptureProcess
    \/ CaptureErrorSleep
    \/ CapturePut
    \/ CaptureCleanup

\* InferenceClient.start, line 108: while not self.stop_event.is_set()
MainLoopCheck ==
    /\ main_pc = "loop"
    /\ main_pc' = IF stop_event THEN "returned" ELSE "take"
    /\ UNCHANGED <<stop_event, cap_pc, capture, reconnect_attempts, wait_time,
                   frame_id, frame_queue, main_frame, frames_sent, connected,
                   ingest_buf, result_buf, nresults, main_result,
                   results_received, result_queue, rh_pc, rh_item, results_saved>>
    /\ UNCHANGED <<qvars, mvars, svars, xvars, wvars>>

\* start, lines 111-112: if not self.frame_queue.empty(): get(timeout=0.01)
MainTake ==
    /\ main_pc = "take"
    /\ IF Len(frame_queue) > 0
       THEN /\ main_frame' = Head(frame_queue)
            /\ frame_queue' = Tail(frame_queue)
            /\ main_pc' = "encode"
       ELSE /\ main_pc' = "receive"
            /\ UNCHANGED <<main_frame, frame_queue>>
    /\ UNCHANGED <<stop_event, cap_pc, capture, reconnect_attempts, wait_time,
                   frame_id, frames_sent, connected,
                   ingest_buf, result_buf, nresults, main_result,
                   results_received, result_queue, rh_pc, rh_item, results_saved>>
    /\ UNCHANGED <<qvars, mvars, svars, xvars, wvars>>

\* start, lines 115-121: encode_frame; on a failure the frame is skipped
\* and the loop continues
MainEncode ==
    /\ main_pc = "encode"
    /\ \E encoded \in BOOLEAN :
        /\ main_pc' = IF encoded THEN "send" ELSE "loop"
        /\ main_frame' = IF encoded THEN main_frame ELSE -1
    /\ UNCHANGED <<stop_event, cap_pc, capture, reconnect_attempts, wait_time,
                   frame_id, frame_queue, frames_sent, connected,
                   ingest_buf, result_buf, nresults, main_result,
                   results_received, result_queue, rh_pc, rh_item, results_saved>>
    /\ UNCHANGED <<qvars, mvars, svars, xvars, wvars>>

\* ZMQClient.send_frame, lines 85-112: send with zmq.NOBLOCK; zmq.Again
\* (the socket cannot buffer the message) returns False
send_frame_ok == connected /\ Len(ingest_buf) < SendHWM

\* start, lines 123-128: self.zmq_client.send_frame(frame_data), the frame
\* is not kept either way
MainSend ==
    /\ main_pc = "send"
    /\ IF send_frame_ok
       THEN /\ ingest_buf' = Append(ingest_buf, main_frame)
            /\ frames_sent' = frames_sent + 1
       ELSE UNCHANGED <<ingest_buf, frames_sent>>
    /\ main_frame' = -1
    /\ main_pc' = "receive"
    /\ UNCHANGED <<stop_event, cap_pc, capture, reconnect_attempts, wait_time,
                   frame_id, frame_queue, connected,
                   result_buf, nresults, main_result,
                   results_received, result_queue, rh_pc, rh_item, results_saved>>
    /\ UNCHANGED <<qvars, mvars, svars, xvars, wvars>>

\* start, lines 131-132 and ZMQClient.receive_result, lines 124-143: poll
\* with a timeout; no message gives None and the loop goes on (line 140)
MainReceive ==
    /\ main_pc = "receive"
    /\ IF connected /\ Len(result_buf) > 0
       THEN /\ main_result' = Head(result_buf)
            /\ result_buf' = Tail(result_buf)
            /\ main_pc' = "result_put"
       ELSE /\ main_pc' = "loop"
            /\ UNCHANGED <<main_result, result_buf>>
    /\ UNCHANGED <<stop_event, cap_pc, capture, reconnect_attempts, wait_time,
                   frame_id, frame_queue, main_frame, frames_sent, connected,
                   ingest_buf, nresults,
                   results_received, result_queue, rh_pc, rh_item, results_saved>>
    /\ UNCHANGED <<qvars, mvars, svars, xvars, wvars>>

\* start, lines 133-134: self.result_queue.put(result_data) on the
\* queue.Queue(maxsize=queue_size) of client.py line 40, a put that waits
\* while the queue is full
MainResultPut ==
    /\ main_pc = "result_put"
    /\ Len(result_queue) < QueueSize
    /\ result_queue' = Append(result_queue, main_result)
    /\ results_received' = results_received + 1
    /\ main_result' = -1
    /\ main_pc' = "loop"
    /\ UNCHANGED <<stop_event, cap_pc, capture, reconnect_attempts, wait_time,
                   frame_id, frame_queue, main_frame, frames_sent, connected,
                   ingest_buf, result_buf, nresults,
                   rh_pc, rh_item, results_saved>>
    /\ UNCHANGED <<qvars, mvars, svars, xvars, wvars>>

\* InferenceClient.stop, lines 155-159, run by the signal handler of
\* client.py line 191 on the main thread: the stop event is set and the
\* main loop is not resumed
ClientStop ==
    /\ ~stop_event
    /\ main_pc \notin {"returned", "join", "exited"}
    /\ stop_event' = TRUE
    /\ main_pc' = "join"
    /\ UNCHANGED <<cap_pc, capture, reconnect_attempts, wait_time,
                   frame_id, frame_queue, main_frame, frames_sent, connected,
                   ingest_buf, result_buf, nresults, main_result,
                   results_received, result_queue, rh_pc, rh_item, results_saved>>
    /\ UNCHANGED <<qvars, mvars, svars, xvars, wvars>>

\* stop, lines 162-169: both join(timeout=2.0) calls return, the sockets
\* are closed, sys.exit(0)
ClientExit ==
    /\ main_pc = "join"
    /\ connected' = FALSE
    /\ main_pc' = "exited"
    /\ UNCHANGED <<stop_event, cap_pc, capture, reconnect_attempts, wait_time,
                   frame_id, frame_queue, main_frame, frames_sent,
                   ingest_buf, result_buf, nresults, main_result,
                   results_received, result_queue, rh_pc, rh_item, results_saved>>
    /\ UNCHANGED <<qvars, mvars, svars, xvars, wvars>>

MainStep ==
    \/ MainLoopCheck
    \/ MainTake
    \/ MainEncode
    \/ MainSend
    \/ MainReceive
    \/ MainResultPut
    \/ ClientExit

\* ResultHandler.run, line 53: while not self.stop_event.is_set()
ResultLoopCheck ==
    /\ rh_pc = "loop"
    /\ rh_pc' = IF stop_event THEN "stopped" ELSE "get"
    /\ UNCHANGED <<stop_event, cap_pc, capture, reconnect_attempts, wait_time,
                   frame_id, frame_queue, main_pc, main_frame, frames_sent,
                   connected, ingest_buf, result_buf, nresults, main_result,
                   results_received, result_queue, rh_item, results_saved>>
    /\ UNCHANGED <<qvars, mvars, svars, xvars, wvars>>

\* run, lines 56 and 76-78: self.result_queue.get(timeout=0.1); Empty is
\* caught and the loop continues
ResultGet ==
    /\ rh_pc = "get"
    /\ IF Len(result_queue) > 0
       THEN /\ rh_item' = Head(result_queue)
            /\ result_queue' = Tail(result_queue)
            /\ rh_pc' = "save"
       ELSE /\ rh_pc' = "loop"
            /\ UNCHANGED <<rh_item, result_queue>>
    /\ UNCHANGED <<stop_event, cap_pc, capture, reconnect_attempts, wait_time,
                   frame_id, frame_queue, main_pc, main_frame, frames_sent,
                   connected, ingest_buf, result_buf, nresults, main_result,
                   results_received, results_saved>>
    /\ UNCHANGED <<qvars, mvars, svars, xvars, wvars>>

\* a handler whose thread ends when the file cannot be written
ResultSaveFatal ==
    /\ rh_pc = "save"
    /\ saves' = Append(saves, rh_item)
    /\ \E written \in BOOLEAN :
        IF written
        THEN /\ results_saved' = results_saved + 1
             /\ rh_item' = -1
             /\ rh_pc' = "loop"
        ELSE /\ rh_pc' = "stopped"
             /\ UNCHANGED <<results_saved, rh_item>>
    /\ UNCHANGED <<stop_event, cap_pc, capture, reconnect_attempts, wait_time,
                   frame_id, frame_queue, main_pc, main_frame, frames_sent,
                   connected, ingest_buf, result_buf, nresults, main_result,
                   results_received, result_queue>>
    /\ UNCHANGED <<qvars, mvars, svars, handed, phase, sent, tvars, wvars>>

\* run, lines 62-69: _save_json(result, stream_name, frame_id), lines 96-109:
\* the directory is made and the file written, then self.results_saved += 1
\* and the loop goes on; or mkdir, open or json.dump raises and the except
\* of line 111 is entered
ResultSave ==
    /\ rh_pc = "save"
    /\ saves' = Append(saves, rh_item)
    /\ \E written \in BOOLEAN :
        IF written
        THEN /\ results_saved' = results_saved + 1
             /\ rh_item' = -1
             /\ rh_pc' = "loop"
        ELSE /\ rh_pc' = "save_error"
             /\ UNCHANGED <<results_saved, rh_item>>
    /\ UNCHANGED <<stop_event, cap_pc, capture, reconnect_attempts, wait_time,
                   frame_id, frame_queue, main_pc, main_frame, frames_sent,
                   connected, ingest_buf, result_buf, nresults, main_result,
                   results_received, result_queue>>
    /\ UNCHANGED <<qvars, mvars, svars, handed, phase, sent, tvars, wvars>>

\* _save_json, lines 111-112: the failure is logged and the call returns;
\* run, line 69: self.results_saved += 1, and the loop goes on
ResultSaveError ==
    /\ rh_pc = "save_error"
    /\ results_saved' = results_saved + 1
    /\ rh_item' = -1
    /\ rh_pc' = "loop"
    /\ UNCHANGED <<stop_event, cap_pc, capture, reconnect_attempts, wait_time,
                   frame_id, frame_queue, main_pc, main_frame, frames_sent,
                   connected, ingest_buf, result_buf, nresults, main_result,
                   results_received, result_queue>>
    /\ UNCHANGED <<qvars, mvars, svars, xvars, wvars>>

ResultHandlerStep ==
    \/ ResultLoopCheck
    \/ ResultGet
    \/ ResultSave
    \/ ResultSaveError

\* the server end of the ingest channel takes a frame off the wire
\* (ZMQServer.receive_frames, line 86)
ServerPulls ==
    /\ Len(ingest_buf) > 0
    /\ ingest_buf' = Tail(ingest_buf)
    /\ UNCHANGED <<stop_event, cap_pc, capture, reconnect_attempts, wait_time,
                   frame_id, frame_queue, main_pc, main_frame, frames_sent,
                   connected, result_buf, nresults, main_result,
                   results_received, result_queue, rh_pc, rh_item, results_saved>>
    /\ UNCHANGED <<qvars, mvars, svars, xvars, wvars>>

\* the server end of the egress channel delivers a result to the client
\* (ZMQServer.send_results, line 135)
ServerDelivers ==
    /\ nresults < MaxResults
    /\ Len(result_buf) < SendHWM
    /\ result_buf' = Append(result_buf, nresults)
    /\ nresults' = nresults + 1
    /\ UNCHANGED <<stop_event, cap_pc, capture, reconnect_attempts, wait_time,
                   frame_id, frame_queue, main_pc, main_frame, frames_sent,
                   connected, ingest_buf, main_result,
                   results_received, result_queue, rh_pc, rh_item, results_saved>>
    /\ UNCHANGED <<qvars, mvars, svars, xvars, wvars>>

ClientNext ==
    \/ CaptureStep
    \/ MainStep
    \/ ResultHandlerStep
    \/ ClientStop
    \/ ServerPulls
    \/ ServerDelivers

\* ----------------------------------------------------------- MetricsTracker
\* window_size of the rolling windows (the program's default is 100)
WindowSize == 2
\* record_* calls made in one behaviour
MaxRecords == 3
\* the clock, in tenths of a second, is read up to this value
MaxTime == 6
\* record_frame, line 57: the rate is recomputed after 0.5 s, in tenths
FpsUpdateTicks == 5

LatencySamples == {10, 20}
DepthSamples == {0, 1}
ClockSteps == {0, 1, FpsUpdateTicks}

RecordOps == {"record_latency", "record_frame", "record_dropped_frame",
              "record_queue_depth"}
GetterOps == {"get_avg_latency", "get_min_latency", "get_max_latency",
              "get_fps", "get_avg_queue_depth", "get_drop_rate"}
SummaryOps == {"get_summary", "print_summary"}

\* get_summary, lines 141-146: the getters it calls, in order, while it
\* holds the lock (get_uptime at line 138 takes no lock)
SummaryCalls == <<"get_drop_rate", "get_avg_latency", "get_min_latency",
                  "get_max_latency", "get_avg_queue_depth">>

\* a deque built without maxlen: nothing is ever discarded
PushNoLimit(w, x) == Append(w, x)

\* deque(maxlen=window_size).append
Push(w, x) == IF Len(w) >= WindowSize THEN Append(Tail(w), x) ELSE Append(w, x)

RECURSIVE SeqSum(_)
SeqSum(s) == IF s = <<>> THEN 0 ELSE Head(s) + SeqSum(Tail(s))

SeqMin(s) == CHOOSE x \in Range(s) : \A y \in Range(s) : x <= y
SeqMax(s) == CHOOSE x \in Range(s) : \A y \in Range(s) : x >= y

\* a float result as the fraction <<numerator, denominator>>
Zero == <<0, 1>>

\* a rate taken over the intervals between the timestamps
UpdateFpsIntervals(ts) ==
    IF Len(ts) < 2 THEN Zero
    ELSE LET time_span == ts[Len(ts)] - ts[1]
         IN IF time_span > 0 THEN <<10 * (Len(ts) - 1), time_span>> ELSE Zero

\* MetricsTracker._update_fps, lines 73-82; timestamps are in tenths of a
\* second, so the rate per second is 10 * len / span
UpdateFps(ts) ==
    IF Len(ts) < 2 THEN Zero
    ELSE LET time_span == ts[Len(ts)] - ts[1]
         IN IF time_span > 0 THEN <<10 * Len(ts), time_span>> ELSE Zero

\* get_avg_latency, lines 87-89
get_avg_latency == IF latencies = <<>> THEN Zero
                   ELSE <<SeqSum(latencies), Len(latencies)>>
\* get_min_latency, lines 94-96
get_min_latency == IF latencies = <<>> THEN Zero ELSE <<SeqMin(latencies), 1>>
\* get_max_latency, lines 101-103
get_max_latency == IF latencies = <<>> THEN Zero ELSE <<SeqMax(latencies), 1>>
\* get_fps, line 108
get_fps == current_fps
\* get_avg_queue_depth, lines 113-115
get_avg_queue_depth == IF queue_depths = <<>> THEN Zero
                       ELSE <<SeqSum(queue_depths), Len(queue_depths)>>
\* a drop rate taken over the processed frames only
DropRateOverProcessed ==
    IF total_frames + dropped_frames = 0 THEN Zero
    ELSE <<dropped_frames * 100, total_frames>>

\* get_drop_rate, lines 120-123
get_drop_rate ==
    LET total == total_frames + dropped_frames
    IN IF total = 0 THEN Zero ELSE <<dropped_frames * 100, total>>

GetterValue(name) ==
    CASE name = "get_avg_latency" -> get_avg_latency
      [] name = "get_min_latency" -> get_min_latency
      [] name = "get_max_latency" -> get_max_latency
      [] name = "get_fps" -> get_fps
      [] name = "get_avg_queue_depth" -> get_avg_queue_depth
      [] name = "get_drop_rate" -> get_drop_rate

MetricsInit ==
    /\ lock = 0
    /\ latencies = <<>>
    /\ frame_timestamps = <<>>
    /\ last_fps_update = 0
    /\ current_fps = Zero
    /\ total_frames = 0
    /\ dropped_frames = 0
    /\ queue_depths = <<>>
    /\ now = 0
    /\ nrecords = 0
    /\ m_op = [t \in Threads |-> [name |-> "none", arg |-> 0]]
    /\ m_inner = [t \in Threads |-> 0]
    /\ m_pc = [t \in Threads |-> "idle"]
    /\ m_ret = [t \in Threads |-> Zero]

\* a thread calls a method of the tracker
MetricsCall(t) ==
    /\ m_pc[t] = "idle"
    /\ \E name \in RecordOps \cup GetterOps \cup SummaryOps :
       \E x \in LatencySamples \cup DepthSamples :
        /\ name = "record_latency" => x \in LatencySamples
        /\ name = "record_queue_depth" => x \in DepthSamples
        /\ name \notin {"record_latency", "record_queue_depth"} => x = 0
        /\ name \in RecordOps => nrecords < MaxRecords
        /\ nrecords' = IF name \in RecordOps THEN nrecords + 1 ELSE nrecords
        /\ m_op' = [m_op EXCEPT ![t] = [name |-> name, arg |-> x]]
    /\ m_pc' = [m_pc EXCEPT ![t] = "acquire"]
    /\ m_ret' = [m_ret EXCEPT ![t] = Zero]
    /\ UNCHANGED <<lock, latencies, frame_timestamps, last_fps_update,
                   current_fps, total_frames, dropped_frames, queue_depths,
                   now, m_inner>>
    /\ UNCHANGED <<qvars, cvars, svars, xvars, wvars>>

\* "with self.lock:" on entry, of the method called or of a getter that
\* get_summary calls: threading.Lock.acquire waits until the lock is free,
\* whoever holds it
MetricsAcquire(t) ==
    /\ m_pc[t] = "acquire"
    /\ lock = 0
    /\ lock' = t
    /\ m_pc' = [m_pc EXCEPT ![t] = "body"]
    /\ UNCHANGED <<latencies, frame_timestamps, last_fps_update,
                   current_fps, total_frames, dropped_frames, queue_depths,
                   now, nrecords, m_op, m_inner, m_ret>>
    /\ UNCHANGED <<qvars, cvars, svars, xvars, wvars>>

\* a record_frame that recomputes the rate on every call
RecordFrameUngated(c) ==
    /\ now' = c
    /\ frame_timestamps' = Push(frame_timestamps, c)
    /\ total_frames' = total_frames + 1
    /\ current_fps' = UpdateFps(Push(frame_timestamps, c))
    /\ last_fps_update' = c
    /\ UNCHANGED <<latencies, dropped_frames, queue_depths>>

\* record_frame, lines 52-59, reading the clock c
RecordFrame(c) ==
    /\ now' = c
    /\ frame_timestamps' = Push(frame_timestamps, c)
    /\ total_frames' = total_frames + 1
    /\ IF c - last_fps_update >= FpsUpdateTicks
       THEN /\ current_fps' = UpdateFps(Push(frame_timestamps, c))
            /\ last_fps_update' = c
       ELSE UNCHANGED <<current_fps, last_fps_update>>
    /\ UNCHANGED <<latencies, dropped_frames, queue_depths>>

\* the statements under "with self.lock:" of the method entered
MetricsBody(t) ==
    /\ m_pc[t] = "body"
    /\ LET name == m_op[t].name IN
       IF m_inner[t] > 0
       THEN \* a getter called by get_summary
            /\ m_ret' = [m_ret EXCEPT ![t] = GetterValue(SummaryCalls[m_inner[t]])]
            /\ m_pc' = [m_pc EXCEPT ![t] = "release"]
            /\ UNCHANGED <<latencies, frame_timestamps, last_fps_update,
                           current_fps, total_frames, dropped_frames,
                           queue_depths, now, m_inner>>
       ELSE IF name \in SummaryOps
       THEN \* get_summary, line 141: self.get_drop_rate() with the lock held
            /\ m_inner' = [m_inner EXCEPT ![t] = 1]
            /\ m_pc' = [m_pc EXCEPT ![t] = "acquire"]
            /\ UNCHANGED <<latencies, frame_timestamps, last_fps_update,
                           current_fps, total_frames, dropped_frames,
                           queue_depths, now, m_ret>>
       ELSE IF name \in GetterOps
       THEN /\ m_ret' = [m_ret EXCEPT ![t] = GetterValue(name)]
            /\ m_pc' = [m_pc EXCEPT ![t] = "release"]
            /\ UNCHANGED <<latencies, frame_timestamps, last_fps_update,
                           current_fps, total_frames, dropped_frames,
                           queue_depths, now, m_inner>>
       ELSE /\ CASE name = "record_latency" ->
                     /\ latencies' = Push(latencies, m_op[t].arg)
                     /\ UNCHANGED <<frame_timestamps, last_fps_update, current_fps,
                                    total_frames, dropped_frames, queue_depths, now>>
                 [] name = "record_frame" ->
                     \E d \in ClockSteps :
                        /\ now + d <= MaxTime
                        /\ RecordFrame(now + d)
                 [] name = "record_dropped_frame" ->
                     /\ dropped_frames' = dropped_frames + 1
                     /\ UNCHANGED <<latencies, frame_timestamps, last_fps_update,
                                    current_fps, total_frames, queue_depths, now>>
                 [] name = "record_queue_depth" ->
                     /\ queue_depths' = Push(queue_depths, m_op[t].arg)
                     /\ UNCHANGED <<latencies, frame_timestamps, last_fps_update,
                                    current_fps, total_frames, dropped_frames, now>>
            /\ m_pc' = [m_pc EXCEPT ![t] = "release"]
            /\ UNCHANGED <<m_inner, m_ret>>
    /\ UNCHANGED <<lock, nrecords, m_op>>
    /\ UNCHANGED <<qvars, cvars, svars, xvars, wvars>>

\* "with self.lock:" on exit: the lock is released; a getter called by
\* get_summary returns to it, which calls the next one
MetricsRelease(t) ==
    /\ m_pc[t] = "release"
    /\ lock' = 0
    /\ IF m_inner[t] > 0 /\ m_inner[t] < Len(SummaryCalls)
       THEN /\ m_inner' = [m_inner EXCEPT ![t] = @ + 1]
            /\ m_pc' = [m_pc EXCEPT ![t] = "acquire"]
       ELSE /\ m_inner' = [m_inner EXCEPT ![t] = 0]
            /\ m_pc' = [m_pc EXCEPT ![t] = "idle"]
    /\ UNCHANGED <<latencies, frame_timestamps, last_fps_update,
                   current_fps, total_frames, dropped_frames, queue_depths,
                   now, nrecords, m_op, m_ret>>
    /\ UNCHANGED <<qvars, cvars, svars, xvars, wvars>>

MetricsNext ==
    \E t \in Threads :
        \/ MetricsCall(t)
        \/ MetricsAcquire(t)
        \/ MetricsBody(t)
        \/ MetricsRelease(t)

\* ------------------------------------------- CaptureWorker: rate limiting
\* frame_interval = 1.0 / self.target_fps (line 126), in tenths of a second
FrameInterval == 2
\* by how much time.sleep may overrun, in tenths of a second
Oversleep == {0, 1}

\* a rate limiter that never waits
RateLimitNoWait ==
    /\ cap_pc = "rate"
    /\ current_time' = now
    /\ cap_pc' = "read"
    /\ UNCHANGED <<now, last_frame_time, handed, phase, saves, sent>>
    /\ UNCHANGED <<stop_event, capture, reconnect_attempts, wait_time, frame_id,
                   frame_queue, main_pc, main_frame, frames_sent, connected,
                   ingest_buf, result_buf, nresults, main_result,
                   results_received, result_queue, rh_pc, rh_item, results_saved>>
    /\ UNCHANGED <<lock, latencies, frame_timestamps, last_fps_update,
                   current_fps, total_frames, dropped_frames, queue_depths,
                   nrecords, m_op, m_inner, m_pc, m_ret>>
    /\ UNCHANGED <<qvars, svars, wvars>>

\* run, lines 132-136, with the clock: current_time = time.time(); when
\* less than frame_interval has passed since last_frame_time the thread
\* sleeps for the remainder, at least, and continues; else it goes on to
\* read
RateLimitTimed ==
    /\ cap_pc = "rate"
    /\ current_time' = now
    /\ IF now - last_frame_time < FrameInterval
       THEN /\ \E late \in Oversleep :
                 /\ last_frame_time + FrameInterval + late <= MaxTime
                 /\ now' = last_frame_time + FrameInterval + late
            /\ cap_pc' = "loop"
       ELSE /\ cap_pc' = "read"
            /\ UNCHANGED now
    /\ UNCHANGED <<last_frame_time, handed, phase, saves, sent>>
    /\ UNCHANGED <<stop_event, capture, reconnect_attempts, wait_time, frame_id,
                   frame_queue, main_pc, main_frame, frames_sent, connected,
                   ingest_buf, result_buf, nresults, main_result,
                   results_received, result_queue, rh_pc, rh_item, results_saved>>
    /\ UNCHANGED <<lock, latencies, frame_timestamps, last_fps_update,
                   current_fps, total_frames, dropped_frames, queue_depths,
                   nrecords, m_op, m_inner, m_pc, m_ret>>
    /\ UNCHANGED <<qvars, svars, wvars>>

\* run, lines 168 and 181-182: the put of frame_data, self.frame_id += 1
\* and last_frame_time = current_time; the history keeps, for the frame,
\* the clock reading of its loop iteration and the time of its put
CapturePutTimed ==
    /\ cap_pc = "put"
    /\ Len(frame_queue) < QueueSize
    /\ frame_queue' = Append(frame_queue, frame_id)
    /\ frame_id' = frame_id + 1
    /\ last_frame_time' = current_time
    /\ handed' = Append(handed, [frame_id |-> frame_id,
                                 read_at |-> current_time, put_at |-> now])
    /\ phase' = PhaseAfter("frame")
    /\ cap_pc' = "loop"
    /\ UNCHANGED <<saves, sent, current_time>>
    /\ UNCHANGED <<stop_event, capture, reconnect_attempts, wait_time,
                   main_pc, main_frame, frames_sent, connected,
                   ingest_buf, result_buf, nresults, main_result,
                   results_received, result_queue, rh_pc, rh_item, results_saved>>
    /\ UNCHANGED <<qvars, mvars, svars, wvars>>

\* time passes while the capture thread reads, resizes, writes a debug
\* frame, reconnects or waits to be scheduled; the clock counts from the
\* instant of line 127, where last_frame_time is set
ClockTick ==
    /\ cap_pc \notin {"disconnected", "connect_init", "exited"}
    /\ now < MaxTime
    /\ now' = now + 1
    /\ UNCHANGED <<cap_pc, stop_event, capture, reconnect_attempts, wait_time, frame_id,
                   frame_queue, main_pc, main_frame, frames_sent, connected,
                   ingest_buf, result_buf, nresults, main_result,
                   results_received, result_queue, rh_pc, rh_item, results_saved>>
    /\ UNCHANGED <<lock, latencies, frame_timestamps, last_fps_update,
                   current_fps, total_frames, dropped_frames, queue_depths,
                   nrecords, m_op, m_inner, m_pc, m_ret>>
    /\ UNCHANGED <<qvars, svars, xvars, wvars>>

RateNext ==
    \/ CaptureStart
    \/ Connect
    \/ CaptureLoopCheck
    \/ RateLimitTimed
    \/ CaptureRead
    \/ Reconnect
    \/ BackoffDone
    \/ CaptureProcess
    \/ CaptureErrorSleep
    \/ CapturePutTimed
    \/ ClockTick

\* ------------------------------------------- MetricsTracker: rate refresh
\* timestamps in a window handed to _update_fps
MaxStamps == 10
\* the first timestamp of such a window, in tenths of a second
MaxStart == 2
\* the spacing of its timestamps, in tenths of a second; time.time() is the
\* wall clock, which may also stand still or step back
MaxStep == 2

\* the window of n timestamps that starts at s and is spaced d apart
Spaced(n, s, d) == [i \in 1..n |-> s + (i - 1) * d]

\* record_frame, lines 52-54, has run in thread t of a tracker whose
\* window_size is at least MaxStamps: the timestamp read is the last of the
\* window and the frame is counted; line 57 comes next
FpsInit ==
    /\ \E t \in Threads :
        /\ lock = t
        /\ m_pc = [u \in Threads |-> IF u = t THEN "fps_check" ELSE "idle"]
        /\ m_op = [u \in Threads |->
                     [name |-> IF u = t THEN "record_frame" ELSE "none", arg |-> 0]]
    /\ \E n \in 1..MaxStamps : \E s \in 0..MaxStart : \E d \in (-1)..MaxStep :
        /\ frame_timestamps = Spaced(n, s, d)
        /\ now = s + (n - 1) * d
        /\ total_frames = n
    /\ last_fps_update \in {-2 * FpsUpdateTicks, 0}
    /\ current_fps = Zero
    /\ latencies = <<>>
    /\ dropped_frames = 0
    /\ queue_depths = <<>>
    /\ nrecords = 1
    /\ m_inner = [t \in Threads |-> 0]
    /\ m_ret = [t \in Threads |-> Zero]

\* record_frame, lines 57-59: the rate is refreshed when half a second has
\* passed since the last refresh
RecordFrameRefresh(t) ==
    /\ m_pc[t] = "fps_check"
    /\ IF now - last_fps_update >= FpsUpdateTicks
       THEN /\ current_fps' = UpdateFps(frame_timestamps)
            /\ last_fps_update' = now
       ELSE UNCHANGED <<current_fps, last_fps_update>>
    /\ m_pc' = [m_pc EXCEPT ![t] = "release"]
    /\ UNCHANGED <<lock, latencies, frame_timestamps, total_frames,
                   dropped_frames, queue_depths, now, nrecords, m_op,
                   m_inner, m_ret>>
    /\ UNCHANGED <<qvars, cvars, svars, xvars, wvars>>

FpsNext ==
    \E t \in Threads :
        \/ RecordFrameRefresh(t)
        \/ MetricsRelease(t)

\* ------------------------------------------------- ZMQServer result sender
\* ZMQServer.start, lines 58-62: the PUSH socket is bound, running is set;
\* no client has connected yet
SenderInit ==
    /\ running = TRUE
    /\ send_open = TRUE
    /\ peer_up = FALSE
    /\ egress_buf = <<>>
    /\ s_pc = "loop"
    /\ s_item = -1
    /\ r_pc = "loop"
    /\ nrecv = 0
    /\ h_pc = "none"

\* a blocking send on the bound PUSH socket goes through when a peer is
\* connected and its pipe is below the high water mark
EgressCanAccept == peer_up /\ Len(egress_buf) < SendHWM

\* send_results, line 124: while self.running
SenderLoopCheck ==
    /\ s_pc = "loop"
    /\ s_pc' = IF running THEN "get" ELSE "exited"
    /\ UNCHANGED <<running, send_open, peer_up, egress_buf, s_item,
                   r_pc, nrecv, h_pc>>
    /\ UNCHANGED <<qvars, cvars, mvars, xvars, wvars>>

\* send_results, lines 128-131: self.output_queue.get(timeout=0.1), that
\* is BoundedFrameQueue.get, lines 53-58; None continues the loop
SenderGet ==
    /\ s_pc = "get"
    /\ IF Len(queue) > 0
       THEN /\ s_item' = Head(queue)
            /\ queue' = Tail(queue)
            /\ s_pc' = "send"
       ELSE /\ s_pc' = "loop"
            /\ UNCHANGED <<s_item, queue>>
    /\ UNCHANGED <<running, send_open, peer_up, egress_buf,
                   r_pc, nrecv, h_pc>>
    /\ UNCHANGED <<max_size, drop_policy, frames_added, frames_dropped,
                   pc, arg, tmp, pending, ret,
                   nput, nget, nclear, callers, got, inserted, evicted>>
    /\ UNCHANGED <<cvars, mvars, xvars, wvars>>

\* send_results, lines 134-135: self.send_socket.send(result_bytes) with no
\* flags, a send that waits until the socket can take the message; on a
\* closed socket it raises, which line 142 catches
SenderSend ==
    /\ s_pc = "send"
    /\ send_open => EgressCanAccept
    /\ egress_buf' = IF send_open THEN Append(egress_buf, s_item) ELSE egress_buf
    /\ s_item' = -1
    /\ s_pc' = "loop"
    /\ UNCHANGED <<running, send_open, peer_up, r_pc, nrecv, h_pc>>
    /\ UNCHANGED <<qvars, cvars, mvars, xvars, wvars>>

\* ZMQServer.stop, lines 149-155: running is cleared and the sockets closed
ServerStop ==
    /\ running
    /\ running' = FALSE
    /\ send_open' = FALSE
    /\ UNCHANGED <<peer_up, egress_buf, s_pc, s_item, r_pc, nrecv, h_pc>>
    /\ UNCHANGED <<qvars, cvars, mvars, xvars, wvars>>

\* a client connects its PULL socket to the egress port, or goes away
\* (ZMQClient.connect, line 62; ZMQClient.disconnect, line 152)
PeerChange ==
    /\ peer_up' = ~peer_up
    /\ egress_buf' = <<>>
    /\ UNCHANGED <<running, send_open, s_pc, s_item, r_pc, nrecv, h_pc>>
    /\ UNCHANGED <<qvars, cvars, mvars, xvars, wvars>>

\* the connected client takes a result off the wire
\* (ZMQClient.receive_result, line 130)
PeerPulls ==
    /\ peer_up
    /\ Len(egress_buf) > 0
    /\ egress_buf' = Tail(egress_buf)
    /\ UNCHANGED <<running, send_open, peer_up, s_pc, s_item,
                   r_pc, nrecv, h_pc>>
    /\ UNCHANGED <<qvars, cvars, mvars, xvars, wvars>>

\* the workers put results on the output queue (InferenceWorker.run, line
\* 127) while the sender drains it
ServerNext ==
    \/ \E t \in Threads :
        \/ CallPut(t)
        \/ PutTry(t)
        \/ PutAddLoad(t)
        \/ PutAddStore(t)
        \/ EvictGet(t)
        \/ EvictPut(t)
        \/ DropLoad(t)
        \/ DropStore(t)
    \/ SenderLoopCheck
    \/ SenderGet
    \/ SenderSend
    \/ ServerStop
    \/ PeerChange
    \/ PeerPulls

\* ------------------------------------------------ server process: worker pool
\* frames the server receives in one behaviour
MaxPoolFrames == 2

\* the thread that calls put on the input queue: the server's main thread,
\* in ZMQServer.receive_frames
Receiver == 1
\* the metrics printer thread as the holder of the tracker's lock
Printer == Cardinality(Threads) + 1

\* the payload of a frame as the worker finds it: an image or the bytes of
\* one, None (line 79), bytes decode_frame rejects (line 88), something
\* that is no numpy array (line 93)
PayloadKinds == {"image", "missing", "undecodable", "not_image"}

\* the stream the frame numbered i comes from
StreamOf(i) == IF i % 2 = 1 THEN "cam_1" ELSE "cam_2"
\* the frame_data dictionary of the frame numbered i
FrameOf(i) == [stream_name |-> StreamOf(i), frame_id |-> i]
\* the end-to-end latency a worker measures (line 108), in milliseconds, and
\* the time that passes between two reads of the clock by record_frame
PoolLatencySamples == {20}
PoolClockSteps == {0, FpsUpdateTicks}
\* the worker's locals stream_name and frame_id when it holds no frame
NoMeta == [stream_name |-> "unknown", frame_id |-> 0]

\* InferenceServer.__init__, lines 36-48, and the threads of start, lines
\* 89-120, before their first step
PoolInit ==
    /\ w_stop = FALSE
    /\ w_pc = [w \in Threads |-> "loop"]
    /\ w_frame = [w \in Threads |-> 0]
    /\ w_meta = [w \in Threads |-> NoMeta]
    /\ out_queue = <<>>
    /\ emitted = {}
    /\ failed = {}
    /\ p_pc = "loop"

\* receive_frames, line 103: self.input_queue.put(frame_data), step by step
\* as BoundedFrameQueue.put. InferenceServer.stop runs in the signal handler
\* on this same thread, so nothing is received once the stop event is set
ReceiverPut ==
    /\ ~w_stop
    /\ \/ nput < MaxPoolFrames /\ CallPut(Receiver)
       \/ PutTry(Receiver)
       \/ PutAddLoad(Receiver)
       \/ PutAddStore(Receiver)
       \/ EvictGet(Receiver)
       \/ EvictPut(Receiver)
       \/ DropLoad(Receiver)
       \/ DropStore(Receiver)

\* InferenceWorker.run, line 58: while not self.stop_event.is_set(); the
\* thread ends after line 141
WorkerLoopCheck(w) ==
    /\ w_pc[w] = "loop"
    /\ w_pc' = [w_pc EXCEPT ![w] = IF w_stop THEN "stopped" ELSE "get"]
    /\ UNCHANGED <<w_stop, w_frame, w_meta, out_queue, emitted, failed, p_pc>>
    /\ UNCHANGED <<qvars, cvars, mvars, svars, xvars>>

\* a worker whose get returns the head of the input queue and leaves it there
WorkerGetPeek(w) ==
    /\ w_pc[w] = "get"
    /\ IF Len(queue) > 0
       THEN /\ queue' = queue
            /\ got' = [got EXCEPT ![w] = Append(@, Head(queue))]
            /\ \E k \in PayloadKinds :
                IF k = "image"
                THEN /\ w_frame' = [w_frame EXCEPT ![w] = Head(queue)]
                     /\ w_meta' = [w_meta EXCEPT ![w] = FrameOf(Head(queue))]
                     /\ w_pc' = [w_pc EXCEPT ![w] = "depth"]
                     /\ UNCHANGED failed
                ELSE /\ failed' = failed \cup {Head(queue)}
                     /\ w_pc' = [w_pc EXCEPT ![w] = "loop"]
                     /\ UNCHANGED <<w_frame, w_meta>>
       ELSE /\ w_pc' = [w_pc EXCEPT ![w] = "loop"]
            /\ UNCHANGED <<queue, got, w_frame, w_meta, failed>>
    /\ UNCHANGED <<max_size, drop_policy, frames_added, frames_dropped,
                   pc, arg, tmp, pending, ret,
                   nput, nget, nclear, callers, inserted, evicted>>
    /\ UNCHANGED <<w_stop, out_queue, emitted, p_pc>>
    /\ UNCHANGED <<cvars, mvars, svars, xvars>>

\* run, lines 64-95: self.input_queue.get(timeout=0.1), that is
\* BoundedFrameQueue.get, lines 53-58; None continues the loop (line 68).
\* Of an item the fields are read (lines 71-75); a payload that is None
\* (line 79), that decode_frame rejects (line 88) or that is no numpy array
\* (line 93) is logged and the loop continues
WorkerGet(w) ==
    /\ w_pc[w] = "get"
    /\ IF Len(queue) > 0
       THEN /\ queue' = Tail(queue)
            /\ got' = [got EXCEPT ![w] = Append(@, Head(queue))]
            /\ \E k \in PayloadKinds :
                IF k = "image"
                THEN /\ w_frame' = [w_frame EXCEPT ![w] = Head(queue)]
                     /\ w_meta' = [w_meta EXCEPT ![w] = FrameOf(Head(queue))]
                     /\ w_pc' = [w_pc EXCEPT ![w] = "depth"]
                     /\ UNCHANGED failed
                ELSE /\ failed' = failed \cup {Head(queue)}
                     /\ w_pc' = [w_pc EXCEPT ![w] = "loop"]
                     /\ UNCHANGED <<w_frame, w_meta>>
       ELSE /\ w_pc' = [w_pc EXCEPT ![w] = "loop"]
            /\ UNCHANGED <<queue, got, w_frame, w_meta, failed>>
    /\ UNCHANGED <<max_size, drop_policy, frames_added, frames_dropped,
                   pc, arg, tmp, pending, ret,
                   nput, nget, nclear, callers, inserted, evicted>>
    /\ UNCHANGED <<w_stop, out_queue, emitted, p_pc>>
    /\ UNCHANGED <<cvars, mvars, svars, xvars>>

\* run, line 100: self.metrics.record_queue_depth(self.input_queue.size()),
\* metrics.py lines 68-69: the call waits for the tracker's lock
WorkerRecordDepth(w) ==
    /\ w_pc[w] = "depth"
    /\ lock = 0
    /\ queue_depths' = Push(queue_depths, size)
    /\ w_pc' = [w_pc EXCEPT ![w] = "compute"]
    /\ UNCHANGED <<lock, latencies, frame_timestamps, last_fps_update,
                   current_fps, total_frames, dropped_frames, now, nrecords,
                   m_op, m_inner, m_pc, m_ret>>
    /\ UNCHANGED <<w_stop, w_frame, w_meta, out_queue, emitted, failed, p_pc>>
    /\ UNCHANGED <<qvars, cvars, svars, xvars>>

\* lines 122-127: output_data with the given stream_name and frame_id is
\* put on the output queue, a BoundedFrameQueue of the same capacity with
\* the policy "oldest" (server.py lines 45-48); the steps inside that put
\* are those of SpecServer
PutResult(w, name, id) ==
    /\ out_queue' =
        LET r == [stream_name |-> name, frame_id |-> id]
        IN IF Len(out_queue) >= max_size THEN Append(Tail(out_queue), r)
           ELSE Append(out_queue, r)
    /\ emitted' = emitted \cup
                    {[worker |-> w, stream_name |-> name, frame_id |-> id]}

\* a worker that puts a result whether the model raised or not
WorkerComputeIgnoresRaise(w) ==
    /\ w_pc[w] = "compute"
    /\ \E raised \in BOOLEAN :
        /\ failed' = IF raised THEN failed \cup {w_frame[w]} ELSE failed
        /\ PutResult(w, w_meta[w].stream_name, w_meta[w].frame_id)
        /\ w_pc' = [w_pc EXCEPT ![w] = "latency"]
        /\ UNCHANGED <<w_frame, w_meta>>
    /\ UNCHANGED <<w_stop, p_pc>>
    /\ UNCHANGED <<qvars, cvars, mvars, svars, xvars>>

\* a worker whose output_data carries its frame_count in place of the
\* frame's id
WorkerComputeOwnCount(w) ==
    /\ w_pc[w] = "compute"
    /\ \E raised \in BOOLEAN :
        IF raised
        THEN /\ failed' = failed \cup {w_frame[w]}
             /\ w_frame' = [w_frame EXCEPT ![w] = 0]
             /\ w_meta' = [w_meta EXCEPT ![w] = NoMeta]
             /\ w_pc' = [w_pc EXCEPT ![w] = "loop"]
             /\ UNCHANGED <<out_queue, emitted>>
        ELSE /\ PutResult(w, w_meta[w].stream_name,
                          Cardinality({x \in emitted : x.worker = w}) + 1)
             /\ w_pc' = [w_pc EXCEPT ![w] = "latency"]
             /\ UNCHANGED <<failed, w_frame, w_meta>>
    /\ UNCHANGED <<w_stop, p_pc>>
    /\ UNCHANGED <<qvars, cvars, mvars, svars, xvars>>

\* a worker that records its metrics in a finally clause, for a frame the
\* model raised on as well
WorkerComputeRecordsAlways(w) ==
    /\ w_pc[w] = "compute"
    /\ \E raised \in BOOLEAN :
        IF raised
        THEN /\ failed' = failed \cup {w_frame[w]}
             /\ w_pc' = [w_pc EXCEPT ![w] = "latency"]
             /\ UNCHANGED <<out_queue, emitted, w_frame, w_meta>>
        ELSE /\ PutResult(w, w_meta[w].stream_name, w_meta[w].frame_id)
             /\ w_pc' = [w_pc EXCEPT ![w] = "latency"]
             /\ UNCHANGED <<failed, w_frame, w_meta>>
    /\ UNCHANGED <<w_stop, p_pc>>
    /\ UNCHANGED <<qvars, cvars, mvars, svars, xvars>>

\* run, lines 104-127: self.model(frame), whose exception is caught at line
\* 137, the loop continuing; else format_detection_output and the put of
\* output_data built from the locals stream_name and frame_id
WorkerCompute(w) ==
    /\ w_pc[w] = "compute"
    /\ \E raised \in BOOLEAN :
        IF raised
        THEN /\ failed' = failed \cup {w_frame[w]}
             /\ w_frame' = [w_frame EXCEPT ![w] = 0]
             /\ w_meta' = [w_meta EXCEPT ![w] = NoMeta]
             /\ w_pc' = [w_pc EXCEPT ![w] = "loop"]
             /\ UNCHANGED <<out_queue, emitted>>
        ELSE /\ PutResult(w, w_meta[w].stream_name, w_meta[w].frame_id)
             /\ w_pc' = [w_pc EXCEPT ![w] = "latency"]
             /\ UNCHANGED <<failed, w_frame, w_meta>>
    /\ UNCHANGED <<w_stop, p_pc>>
    /\ UNCHANGED <<qvars, cvars, mvars, svars, xvars>>

\* run, line 130: self.metrics.record_latency(e2e_latency), metrics.py
\* lines 46-47: the call waits for the tracker's lock
WorkerRecordLatency(w) ==
    /\ w_pc[w] = "latency"
    /\ lock = 0
    /\ \E x \in PoolLatencySamples : latencies' = Push(latencies, x)
    /\ w_pc' = [w_pc EXCEPT ![w] = "frame"]
    /\ UNCHANGED <<lock, frame_timestamps, last_fps_update, current_fps,
                   total_frames, dropped_frames, queue_depths, now, nrecords,
                   m_op, m_inner, m_pc, m_ret>>
    /\ UNCHANGED <<w_stop, w_frame, w_meta, out_queue, emitted, failed, p_pc>>
    /\ UNCHANGED <<qvars, cvars, svars, xvars>>

\* run, lines 131-135: self.metrics.record_frame(), metrics.py lines 51-59:
\* the call waits for the tracker's lock; the iteration ends
WorkerRecordFrame(w) ==
    /\ w_pc[w] = "frame"
    /\ lock = 0
    /\ \E d \in PoolClockSteps :
        /\ now + d <= MaxTime
        /\ RecordFrame(now + d)
    /\ w_frame' = [w_frame EXCEPT ![w] = 0]
    /\ w_meta' = [w_meta EXCEPT ![w] = NoMeta]
    /\ w_pc' = [w_pc EXCEPT ![w] = "loop"]
    /\ UNCHANGED <<lock, nrecords, m_op, m_inner, m_pc, m_ret>>
    /\ UNCHANGED <<w_stop, out_queue, emitted, failed, p_pc>>
    /\ UNCHANGED <<qvars, cvars, svars, xvars>>

WorkerStep(w) ==
    \/ WorkerLoopCheck(w)
    \/ WorkerGet(w)
    \/ WorkerRecordDepth(w)
    \/ WorkerCompute(w)
    \/ WorkerRecordLatency(w)
    \/ WorkerRecordFrame(w)

\* InferenceServer._print_metrics_loop, line 138: while not
\* self.stop_event.is_set()
PrinterLoopCheck ==
    /\ p_pc = "loop"
    /\ p_pc' = IF w_stop THEN "exited" ELSE "sleep"
    /\ UNCHANGED <<w_stop, w_pc, w_frame, w_meta, out_queue, emitted,
                   failed>>
    /\ UNCHANGED <<qvars, cvars, mvars, svars, xvars>>

\* _print_metrics_loop, lines 139-140: time.sleep(5) ends and print_summary
\* calls get_summary (metrics.py line 151)
PrinterWake ==
    /\ p_pc = "sleep"
    /\ p_pc' = "get_summary"
    /\ UNCHANGED <<w_stop, w_pc, w_frame, w_meta, out_queue, emitted,
                   failed>>
    /\ UNCHANGED <<qvars, cvars, mvars, svars, xvars>>

\* "with self.lock:" of get_summary (metrics.py line 136) and then of the
\* get_drop_rate it calls with the lock held (lines 141 and 119):
\* threading.Lock.acquire waits until the lock is free, whoever holds it
PrinterAcquire ==
    /\ p_pc \in {"get_summary", "get_drop_rate"}
    /\ lock = 0
    /\ lock' = Printer
    /\ p_pc' = IF p_pc = "get_summary" THEN "get_drop_rate" ELSE "drop_rate_body"
    /\ UNCHANGED <<latencies, frame_timestamps, last_fps_update,
                   current_fps, total_frames, dropped_frames, queue_depths,
                   now, nrecords, m_op, m_inner, m_pc, m_ret>>
    /\ UNCHANGED <<w_stop, w_pc, w_frame, w_meta, out_queue, emitted,
                   failed>>
    /\ UNCHANGED <<qvars, cvars, svars, xvars>>

PrinterStep ==
    \/ PrinterLoopCheck
    \/ PrinterWake
    \/ PrinterAcquire

\* InferenceServer.stop, line 147: self.stop_event.set(). The rest of stop
\* (joins with a timeout, ZMQServer.stop, a last print_summary) takes
\* nothing from the workers but, at most, the tracker's lock
PoolStop ==
    /\ ~w_stop
    /\ w_stop' = TRUE
    /\ UNCHANGED <<w_pc, w_frame, w_meta, out_queue, emitted, failed,
                   p_pc>>
    /\ UNCHANGED <<qvars, cvars, mvars, svars, xvars>>

PoolNext ==
    \/ ReceiverPut
    \/ \E w \in Threads : WorkerStep(w)
    \/ PrinterStep
    \/ PoolStop

\* ------------------------------------------ server process: main thread
\* a client puts a frame message on the ingest wire (ZMQClient.send_frame,
\* line 97); the messages are pickles of frame_data, which pickle.loads
\* accepts, numbered in send order
PeerSends ==
    /\ nrecv + Len(ingest_buf) < MaxPoolFrames
    /\ Len(ingest_buf) < SendHWM
    /\ ingest_buf' = Append(ingest_buf, nrecv + Len(ingest_buf) + 1)
    /\ UNCHANGED <<stop_event, cap_pc, capture, reconnect_attempts, wait_time,
                   frame_id, frame_queue, main_pc, main_frame, frames_sent,
                   connected, result_buf, nresults, main_result,
                   results_received, result_queue, rh_pc, rh_item, results_saved>>
    /\ UNCHANGED <<qvars, mvars, svars, xvars, wvars>>

\* receive_frames, line 82: while self.running. The loop runs on the main
\* thread and stands still while the signal handler is running on it
RecvLoopCheck ==
    /\ h_pc = "none"
    /\ r_pc = "loop"
    /\ r_pc' = IF running THEN "poll" ELSE "exited"
    /\ UNCHANGED <<running, send_open, peer_up, egress_buf, s_pc, s_item,
                   nrecv, h_pc>>
    /\ UNCHANGED <<qvars, cvars, mvars, xvars, wvars>>

\* a poll that hands the queue an item when its timeout ends
RecvPollPutsOnTimeout ==
    /\ h_pc = "none"
    /\ r_pc = "poll"
    /\ IF Len(ingest_buf) > 0
       THEN ingest_buf' = Tail(ingest_buf)
       ELSE UNCHANGED ingest_buf
    /\ nrecv' = nrecv + 1
    /\ r_pc' = "put"
    /\ UNCHANGED <<running, send_open, peer_up, egress_buf, s_pc, s_item, h_pc>>
    /\ UNCHANGED <<stop_event, cap_pc, capture, reconnect_attempts, wait_time,
                   frame_id, frame_queue, main_pc, main_frame, frames_sent,
                   connected, result_buf, nresults, main_result,
                   results_received, result_queue, rh_pc, rh_item, results_saved>>
    /\ UNCHANGED <<qvars, mvars, xvars, wvars>>

\* receive_frames, lines 85-98: self.recv_socket.poll(timeout=100); with a
\* message waiting, recv and pickle.loads; without one the poll returns 0
\* after 100 ms and the loop goes round
RecvPoll ==
    /\ h_pc = "none"
    /\ r_pc = "poll"
    /\ IF Len(ingest_buf) > 0
       THEN /\ ingest_buf' = Tail(ingest_buf)
            /\ nrecv' = nrecv + 1
            /\ r_pc' = "put"
       ELSE /\ r_pc' = "loop"
            /\ UNCHANGED <<ingest_buf, nrecv>>
    /\ UNCHANGED <<running, send_open, peer_up, egress_buf, s_pc, s_item, h_pc>>
    /\ UNCHANGED <<stop_event, cap_pc, capture, reconnect_attempts, wait_time,
                   frame_id, frame_queue, main_pc, main_frame, frames_sent,
                   connected, result_buf, nresults, main_result,
                   results_received, result_queue, rh_pc, rh_item, results_saved>>
    /\ UNCHANGED <<qvars, mvars, xvars, wvars>>

\* receive_frames, line 103: self.input_queue.put(frame_data), step by step
\* as BoundedFrameQueue.put
RecvPut ==
    /\ h_pc = "none"
    /\ r_pc = "put"
    /\ \/ nput < nrecv /\ CallPut(Receiver)
       \/ PutTry(Receiver)
       \/ PutAddLoad(Receiver)
       \/ PutAddStore(Receiver)
       \/ EvictGet(Receiver)
       \/ EvictPut(Receiver)
       \/ DropLoad(Receiver)
       \/ DropStore(Receiver)

\* receive_frames, line 104: put has returned, its result is logged and the
\* loop goes round
RecvPutDone ==
    /\ h_pc = "none"
    /\ r_pc = "put"
    /\ pc[Receiver] = "idle"
    /\ nput = nrecv
    /\ r_pc' = "loop"
    /\ UNCHANGED <<running, send_open, peer_up, egress_buf, s_pc, s_item,
                   nrecv, h_pc>>
    /\ UNCHANGED <<qvars, cvars, mvars, xvars, wvars>>

\* server.py lines 184-189 and 142-147: SIGINT or SIGTERM arrives, the
\* handler runs on the main thread, on top of receive_frames, and calls
\* InferenceServer.stop, which sets the stop event
HandlerStart ==
    /\ h_pc = "none"
    /\ h_pc' = "join"
    /\ w_stop' = TRUE
    /\ UNCHANGED <<running, send_open, peer_up, egress_buf, s_pc, s_item,
                   r_pc, nrecv>>
    /\ UNCHANGED <<w_pc, w_frame, w_meta, out_queue, emitted, failed, p_pc>>
    /\ UNCHANGED <<qvars, cvars, mvars, xvars>>

\* stop, lines 150-154: the joins return or time out, then ZMQServer.stop,
\* lines 150-157: running is cleared and the sockets are closed
HandlerZmqStop ==
    /\ h_pc = "join"
    /\ running' = FALSE
    /\ send_open' = FALSE
    /\ h_pc' = "get_summary"
    /\ UNCHANGED <<peer_up, egress_buf, s_pc, s_item, r_pc, nrecv>>
    /\ UNCHANGED <<qvars, cvars, mvars, xvars, wvars>>

\* stop, lines 158-161: print_summary calls get_summary; "with self.lock:"
\* of get_summary (metrics.py line 136) and then of the get_drop_rate it
\* calls with the lock held (lines 141 and 119): threading.Lock.acquire
\* waits until the lock is free, whoever holds it. Once the getters have
\* returned and the summary is printed, sys.exit(0) raises SystemExit out
\* of the handler and through receive_frames, whose "except Exception"
\* (zmq_server.py line 113) lets it pass
HandlerPrintSummary ==
    /\ h_pc \in {"get_summary", "get_drop_rate", "drop_rate_body"}
    /\ IF h_pc = "drop_rate_body"
       THEN /\ lock' = 0
            /\ h_pc' = "exited"
            /\ r_pc' = "exited"
       ELSE /\ lock = 0
            /\ lock' = Receiver
            /\ h_pc' = IF h_pc = "get_summary" THEN "get_drop_rate"
                       ELSE "drop_rate_body"
            /\ UNCHANGED r_pc
    /\ UNCHANGED <<latencies, frame_timestamps, last_fps_update,
                   current_fps, total_frames, dropped_frames, queue_depths,
                   now, nrecords, m_op, m_inner, m_pc, m_ret>>
    /\ UNCHANGED <<running, send_open, peer_up, egress_buf, s_pc, s_item,
                   nrecv>>
    /\ UNCHANGED <<qvars, cvars, xvars, wvars>>

\* the main thread of the server: the receive loop and, on top of it, the
\* handler once the signal has arrived
ServerMainStep ==
    \/ RecvLoopCheck
    \/ RecvPoll
    \/ RecvPut
    \/ RecvPutDone
    \/ HandlerZmqStop
    \/ HandlerPrintSummary

\* the main loop of a client that has no frame to send: it polls for
\* results (client.py lines 108-140)
ClientPollStep ==
    \/ MainLoopCheck
    \/ MainTake
    \/ MainReceive
    \/ MainResultPut

TransportNext ==
    \/ PeerSends
    \/ ServerMainStep
    \/ HandlerStart
    \/ ClientPollStep
    \/ ServerDelivers

\* ------------------------------------------------- the records on the wire
\* records that cross each channel in one behaviour
MaxWire == 2

\* Python values as the pickler tells them apart
PyInt(n) == [t |-> "int", n |-> n]
PyFloat(x) == [t |-> "float", x |-> x]
PyBool(b) == [t |-> "bool", b |-> b]
PyStr(s) == [t |-> "str", s |-> s]
PyBytes(b) == [t |-> "bytes", b |-> b]
PyArray(a) == [t |-> "ndarray", a |-> a]
PyList(items) == [t |-> "list", items |-> items]
PyDict(d) == [t |-> "dict", d |-> d]

\* the keys of the dictionaries exchanged, in the order in which the code
\* inserts them (capture_worker.py lines 160-165, client.py lines 119-120,
\* inference_worker.py lines 122-126, helpers.py lines 156-168)
KeyOrder == <<"frame", "stream_name", "frame_id", "timestamp", "encoded",
              "result", "latency_ms", "detections", "label", "conf", "bbox">>

\* a pickle opcode with its argument
Op(name) == [op |-> name]

RECURSIVE Save(_), SaveAll(_), SaveItems(_, _)
\* pickle.dumps, the opcodes written for one value: an atom as one opcode;
\* a list as EMPTY_LIST and, when it has items, MARK, the items, APPENDS; a
\* dictionary as EMPTY_DICT and MARK, its keys and values by turns in
\* insertion order, SETITEMS. The framing and memo opcodes, to which no
\* value of these records refers, are left out
Save(v) ==
    CASE v.t = "int" -> <<[op |-> "BININT", n |-> v.n]>>
      [] v.t = "float" -> <<[op |-> "BINFLOAT", x |-> v.x]>>
      [] v.t = "bool" -> <<Op(IF v.b THEN "NEWTRUE" ELSE "NEWFALSE")>>
      [] v.t = "str" -> <<[op |-> "SHORT_BINUNICODE", s |-> v.s]>>
      [] v.t = "bytes" -> <<[op |-> "SHORT_BINBYTES", b |-> v.b]>>
      [] v.t = "list" ->
            IF v.items = <<>> THEN <<Op("EMPTY_LIST")>>
            ELSE <<Op("EMPTY_LIST"), Op("MARK")>> \o SaveAll(v.items)
                    \o <<Op("APPENDS")>>
      [] v.t = "dict" ->
            IF DOMAIN v.d = {} THEN <<Op("EMPTY_DICT")>>
            ELSE <<Op("EMPTY_DICT"), Op("MARK")>> \o SaveItems(v.d, 1)
                    \o <<Op("SETITEMS")>>
SaveAll(items) ==
    IF items = <<>> THEN <<>> ELSE Save(Head(items)) \o SaveAll(Tail(items))
SaveItems(d, i) ==
    IF i > Len(KeyOrder) THEN <<>>
    ELSE IF KeyOrder[i] \in DOMAIN d
         THEN Save(PyStr(KeyOrder[i])) \o Save(d[KeyOrder[i]]) \o SaveItems(d, i + 1)
         ELSE SaveItems(d, i + 1)

\* pickle.dumps(obj): the protocol header, the value, STOP
Dumps(v) == <<Op("PROTO")>> \o Save(v) \o <<Op("STOP")>>

\* the unpickler's stack: the index of its topmost MARK
TopMark(stack) ==
    CHOOSE k \in 1..Len(stack) :
        /\ stack[k].t = "mark"
        /\ \A j \in (k + 1)..Len(stack) : stack[j].t # "mark"

\* SETITEMS: the dictionary d with the keys and values of the sequence kv,
\* key, value, key, value, ..., set in it
SetItems(d, kv) ==
    LET pairs == {i \in 1..Len(kv) : i % 2 = 1}
        keys == {kv[i].s : i \in pairs}
        last(k) == CHOOSE i \in pairs :
                      /\ kv[i].s = k
                      /\ \A j \in pairs : kv[j].s = k => j <= i
    IN [k \in DOMAIN d \cup keys |->
            IF k \in keys THEN kv[last(k) + 1] ELSE d[k]]


RECURSIVE Exec(_, _)
\* pickle.loads, the unpickler run on the opcodes that remain, with its
\* stack; STOP returns the top of the stack
Exec(ops, stack) ==
    LET o == Head(ops)
        rest == Tail(ops)
        k == TopMark(stack)
        below == SubSeq(stack, 1, k - 2)
        above == SubSeq(stack, k + 1, Len(stack))
    IN CASE o.op = "PROTO" -> Exec(rest, stack)
         [] o.op = "STOP" -> stack[Len(stack)]
         [] o.op = "BININT" -> Exec(rest, Append(stack, PyInt(o.n)))
         [] o.op = "BINFLOAT" -> Exec(rest, Append(stack, PyFloat(o.x)))
         [] o.op = "NEWTRUE" -> Exec(rest, Append(stack, PyBool(TRUE)))
         [] o.op = "NEWFALSE" -> Exec(rest, Append(stack, PyBool(FALSE)))
         [] o.op = "SHORT_BINUNICODE" -> Exec(rest, Append(stack, PyStr(o.s)))
         [] o.op = "SHORT_BINBYTES" -> Exec(rest, Append(stack, PyBytes(o.b)))
         [] o.op = "EMPTY_LIST" -> Exec(rest, Append(stack, PyList(<<>>)))
         [] o.op = "EMPTY_DICT" -> Exec(rest, Append(stack, PyDict(<<>>)))
         [] o.op = "MARK" -> Exec(rest, Append(stack, [t |-> "mark"]))
         [] o.op = "APPENDS" ->
                Exec(rest, Append(below, PyList(stack[k - 1].items \o above)))
         [] o.op = "SETITEMS" ->
                Exec(rest, Append(below, PyDict(SetItems(stack[k - 1].d, above))))

\* pickle.loads(data)
Loads(data) == Exec(data, <<>>)

\* the times the clock shows at a capture, at a reception and at the end of
\* an inference
CaptureInstant == 10
RecvInstant == 11
ResultInstant == 12
StreamName == "cam_1"

\* capture_worker.py lines 160-165: frame_data of the frame numbered i, each
\* frame with an image of its own
FrameData(i, ts) ==
    PyDict([frame |-> PyArray(i + 1), stream_name |-> PyStr(StreamName),
            frame_id |-> PyInt(i), timestamp |-> PyFloat(ts)])

\* helpers.encode_frame: the JPEG bytes of an image
encode_frame(img) == PyBytes(img.a)

\* client.py lines 119-120: the frame replaced by its JPEG bytes and
\* 'encoded' set
EncodedFrame(rec) ==
    PyDict([k \in DOMAIN rec.d \cup {"encoded"} |->
              CASE k = "frame" -> encode_frame(rec.d.frame)
                [] k = "encoded" -> PyBool(TRUE)
                [] OTHER -> rec.d[k]])

\* zmq_server.py line 98: frame_data['recv_timestamp'] = time.time()
Stamped(rec, ts) ==
    PyDict([k \in DOMAIN rec.d \cup {"recv_timestamp"} |->
              IF k = "recv_timestamp" THEN PyFloat(ts) ELSE rec.d[k]])

\* helpers.format_detection_output, lines 149-153: one detection
Detection(label, conf) ==
    PyDict([label |-> PyStr(label), conf |-> PyFloat(conf),
            bbox |-> PyList(<<PyFloat(1), PyFloat(2), PyFloat(3), PyFloat(4)>>)])

\* the lists of detections a frame may yield
DetectionLists ==
    {<<>>, <<Detection("person", 90), Detection("car", 50)>>}

\* helpers.format_detection_output, lines 162-168, and the output_data of
\* inference_worker.py lines 122-126
OutputData(i, ts, dets) ==
    PyDict([result |->
                PyDict([timestamp |-> PyInt(ts), frame_id |-> PyInt(i),
                        stream_name |-> PyStr(StreamName),
                        latency_ms |-> PyFloat(20),
                        detections |-> PyList(dets)]),
            stream_name |-> PyStr(StreamName),
            frame_id |-> PyInt(i)])

\* CaptureWorker.run, lines 160-168 and 181: frame_data is built and put on
\* the client's frame queue (a put that waits while the queue is full)
WireCapturePut ==
    /\ frame_id < MaxWire
    /\ Len(frame_queue) < QueueSize
    /\ frame_queue' = Append(frame_queue, FrameData(frame_id, CaptureInstant))
    /\ handed' = Append(handed, FrameData(frame_id, CaptureInstant))
    /\ UNCHANGED <<saves, sent, tvars>>
    /\ frame_id' = frame_id + 1
    /\ UNCHANGED <<stop_event, cap_pc, capture, reconnect_attempts, wait_time,
                   main_pc, main_frame, frames_sent, connected, ingest_buf,
                   result_buf, nresults, main_result, results_received,
                   result_queue, rh_pc, rh_item, results_saved, phase>>
    /\ UNCHANGED <<qvars, mvars, svars, wvars>>

\* InferenceClient.start, lines 110-128: a frame is taken, encoded (a failure
\* skips it, line 121) and given to ZMQClient.send_frame, lines 89-103:
\* pickle.dumps, then send with NOBLOCK, which raises zmq.Again when the
\* socket has no room
WireClientSend ==
    /\ main_pc = "loop"
    /\ IF frame_queue = <<>>
       THEN /\ main_pc' = "receive"
            /\ UNCHANGED <<frame_queue, main_frame, ingest_buf, frames_sent>>
       ELSE /\ frame_queue' = Tail(frame_queue)
            /\ \E encodable \in BOOLEAN :
                IF ~encodable
                THEN /\ main_pc' = "loop"
                     /\ UNCHANGED <<main_frame, ingest_buf, frames_sent>>
                ELSE /\ main_frame' = EncodedFrame(Head(frame_queue))
                     /\ main_pc' = "receive"
                     /\ IF connected /\ Len(ingest_buf) < SendHWM
                        THEN /\ ingest_buf' =
                                  Append(ingest_buf,
                                         Dumps(EncodedFrame(Head(frame_queue))))
                             /\ frames_sent' = frames_sent + 1
                        ELSE UNCHANGED <<ingest_buf, frames_sent>>
    /\ UNCHANGED <<stop_event, cap_pc, capture, reconnect_attempts, wait_time,
                   frame_id, connected, result_buf, nresults, main_result,
                   results_received, result_queue, rh_pc, rh_item,
                   results_saved>>
    /\ UNCHANGED <<qvars, mvars, svars, xvars, wvars>>

\* ZMQServer.receive_frames, lines 85-103, when the poll finds a message:
\* recv, pickle.loads, the reception time is added and the record is put on
\* the input queue (BoundedFrameQueue.put, no other caller being inside it)
WireServerReceive ==
    /\ ingest_buf # <<>>
    /\ ingest_buf' = Tail(ingest_buf)
    /\ nrecv' = nrecv + 1
    /\ LET frame_data == Stamped(Loads(Head(ingest_buf)), RecvInstant)
       IN IF ~Full
           THEN /\ queue' = Append(queue, frame_data)
                /\ frames_added' = frames_added + 1
                /\ UNCHANGED frames_dropped
           ELSE /\ queue' = IF drop_policy = "oldest"
                            THEN Append(Tail(queue), frame_data)
                            ELSE queue
                /\ frames_dropped' = frames_dropped + 1
                /\ UNCHANGED frames_added
    /\ UNCHANGED <<max_size, drop_policy, pc, arg, tmp, pending, ret, nput,
                   nget, nclear, callers, got, inserted, evicted>>
    /\ UNCHANGED <<stop_event, cap_pc, capture, reconnect_attempts, wait_time,
                   frame_id, frame_queue, main_pc, main_frame, frames_sent,
                   connected, result_buf, nresults, main_result,
                   results_received, result_queue, rh_pc, rh_item,
                   results_saved>>
    /\ UNCHANGED <<running, send_open, peer_up, egress_buf, s_pc, s_item,
                   r_pc, h_pc>>
    /\ UNCHANGED <<mvars, xvars, wvars>>

\* InferenceWorker.run, lines 112-127: the result of a frame is formatted
\* and output_data is put on the output queue, whose policy is "oldest"
WireWorkerPut ==
    /\ Cardinality(emitted) < MaxWire
    /\ \E dets \in DetectionLists :
        LET output_data == OutputData(Cardinality(emitted), ResultInstant, dets)
        IN /\ out_queue' = IF Len(out_queue) >= max_size
                           THEN Append(Tail(out_queue), output_data)
                           ELSE Append(out_queue, output_data)
           /\ emitted' = emitted \cup {output_data}
    /\ UNCHANGED <<w_stop, w_pc, w_frame, w_meta, failed, p_pc>>
    /\ UNCHANGED <<qvars, cvars, mvars, svars, xvars>>

\* a sender that serializes the inner 'result' dictionary in place of
\* output_data
WireServerSendInner ==
    /\ out_queue # <<>>
    /\ Len(result_buf) < SendHWM
    /\ result_buf' = Append(result_buf, Dumps(Head(out_queue).d.result))
    /\ out_queue' = Tail(out_queue)
    /\ nresults' = nresults + 1
    /\ UNCHANGED <<stop_event, cap_pc, capture, reconnect_attempts, wait_time,
                   frame_id, frame_queue, main_pc, main_frame, frames_sent,
                   connected, ingest_buf, main_result, results_received,
                   result_queue, rh_pc, rh_item, results_saved>>
    /\ UNCHANGED <<w_stop, w_pc, w_frame, w_meta, emitted, failed, p_pc>>
    /\ UNCHANGED <<qvars, mvars, svars, xvars>>

\* ZMQServer.send_results, lines 126-135, when the get yields a result:
\* pickle.dumps and a send that waits while the socket has no room
WireServerSend ==
    /\ out_queue # <<>>
    /\ Len(result_buf) < SendHWM
    /\ result_buf' = Append(result_buf, Dumps(Head(out_queue)))
    /\ out_queue' = Tail(out_queue)
    /\ nresults' = nresults + 1
    /\ UNCHANGED <<stop_event, cap_pc, capture, reconnect_attempts, wait_time,
                   frame_id, frame_queue, main_pc, main_frame, frames_sent,
                   connected, ingest_buf, main_result, results_received,
                   result_queue, rh_pc, rh_item, results_saved>>
    /\ UNCHANGED <<w_stop, w_pc, w_frame, w_meta, emitted, failed, p_pc>>
    /\ UNCHANGED <<qvars, mvars, svars, xvars>>

\* InferenceClient.start, lines 131-134, with ZMQClient.receive_result,
\* lines 125-139: poll; a message is received, unpickled, put on the result
\* queue and counted; without one the loop goes round
WireClientReceive ==
    /\ main_pc = "receive"
    /\ main_pc' = "loop"
    /\ IF connected /\ result_buf # <<>>
       THEN /\ Len(result_queue) < QueueSize
            /\ main_result' = Loads(Head(result_buf))
            /\ result_buf' = Tail(result_buf)
            /\ result_queue' = Append(result_queue, Loads(Head(result_buf)))
            /\ results_received' = results_received + 1
       ELSE UNCHANGED <<main_result, result_buf, result_queue, results_received>>
    /\ UNCHANGED <<stop_event, cap_pc, capture, reconnect_attempts, wait_time,
                   frame_id, frame_queue, main_frame, frames_sent, connected,
                   ingest_buf, nresults, rh_pc, rh_item, results_saved>>
    /\ UNCHANGED <<qvars, mvars, svars, xvars, wvars>>

WireNext ==
    \/ WireCapturePut
    \/ WireClientSend
    \/ WireServerReceive
    \/ WireWorkerPut
    \/ WireServerSend
    \/ WireClientReceive

\* ------------------------------------------ from the worker pool to the files
\* ZMQServer.send_results, lines 126-135, when the get yields a result: it
\* is serialized and sent once, by a send that waits while the socket has
\* no room
SendResult ==
    /\ out_queue # <<>>
    /\ Len(result_buf) < SendHWM
    /\ result_buf' = Append(result_buf, Head(out_queue))
    /\ sent' = Append(sent, Head(out_queue))
    /\ out_queue' = Tail(out_queue)
    /\ nresults' = nresults + 1
    /\ UNCHANGED <<stop_event, cap_pc, capture, reconnect_attempts, wait_time,
                   frame_id, frame_queue, main_pc, main_frame, frames_sent,
                   connected, ingest_buf, main_result, results_received,
                   result_queue, rh_pc, rh_item, results_saved>>
    /\ UNCHANGED <<w_stop, w_pc, w_frame, w_meta, emitted, failed, p_pc>>
    /\ UNCHANGED <<qvars, mvars, svars, handed, phase, saves, tvars>>

\* InferenceClient.start, lines 131-134, with ZMQClient.receive_result,
\* lines 125-139, when the poll finds a message: it is received and put on
\* the result queue (a put that waits while the queue is full)
ReceiveResult ==
    /\ connected
    /\ result_buf # <<>>
    /\ Len(result_queue) < QueueSize
    /\ main_result' = Head(result_buf)
    /\ result_buf' = Tail(result_buf)
    /\ result_queue' = Append(result_queue, Head(result_buf))
    /\ results_received' = results_received + 1
    /\ UNCHANGED <<stop_event, cap_pc, capture, reconnect_attempts, wait_time,
                   frame_id, frame_queue, main_pc, main_frame, frames_sent,
                   connected, ingest_buf, nresults, rh_pc, rh_item,
                   results_saved>>
    /\ UNCHANGED <<qvars, mvars, svars, xvars, wvars>>

\* ResultHandler.run, lines 56-69, when the get yields a result: it is
\* given to _save_json, which writes the file or logs that it could not,
\* and counted
HandleResult ==
    /\ rh_pc = "loop"
    /\ ~stop_event
    /\ result_queue # <<>>
    /\ result_queue' = Tail(result_queue)
    /\ saves' = Append(saves, Head(result_queue))
    /\ results_saved' = results_saved + 1
    /\ UNCHANGED <<stop_event, cap_pc, capture, reconnect_attempts, wait_time,
                   frame_id, frame_queue, main_pc, main_frame, frames_sent,
                   connected, ingest_buf, result_buf, nresults, main_result,
                   results_received, rh_pc, rh_item>>
    /\ UNCHANGED <<qvars, mvars, svars, handed, phase, sent, tvars, wvars>>

PipelineNext ==
    \/ ReceiverPut
    \/ \E w \in Threads : WorkerStep(w)
    \/ SendResult
    \/ ReceiveResult
    \/ HandleResult

\* ----------------------------------------------------------- specifications
\* a queue of capacity 1 that nobody calls, for the specifications of the
\* client and of the tracker
QParked == max_size = 1 /\ drop_policy = "oldest" /\ QStart

\* BoundedFrameQueue under concurrent put, get and clear
Init == QInit /\ ClientInit /\ MetricsInit /\ SenderInit /\ PoolInit
Next == QNext
Spec == Init /\ [][Next]_vars

\* the client process: capture thread, main loop, result handler
InitClient == QParked /\ ClientInit /\ MetricsInit /\ SenderInit /\ PoolInit
SpecClient == InitClient /\ [][ClientNext]_vars

\* the client process with each of its threads scheduled again and again;
\* nothing forces the stop signal or the server end of the sockets
FairSpecClient ==
    /\ InitClient
    /\ [][ClientNext]_vars
    /\ WF_vars(CaptureStep)
    /\ WF_vars(MainStep)
    /\ WF_vars(ResultHandlerStep)

\* the capture thread with the consumer of its queue, the sending side of
\* the main loop; no result arrives, so the main loop never has one to put
CaptureNext ==
    \/ CaptureStep
    \/ MainLoopCheck
    \/ MainTake
    \/ MainEncode
    \/ MainSend
    \/ MainReceive
    \/ ClientExit
    \/ ClientStop
    \/ ServerPulls
SpecCapture == InitClient /\ [][CaptureNext]_vars

\* the capture loop with its clock, the frame queue filling up
SpecRate == InitClient /\ [][RateNext]_vars

\* MetricsTracker called from several threads
InitMetrics == QParked /\ ClientInit /\ MetricsInit /\ SenderInit /\ PoolInit
SpecMetrics == InitMetrics /\ [][MetricsNext]_vars

\* the server's output queue, its workers' puts and the result sender;
\* server.py line 47 fixes the policy of the output queue
InitServer ==
    /\ max_size \in 1..MaxCap
    /\ drop_policy = "oldest"
    /\ QStart
    /\ ClientInit /\ MetricsInit /\ SenderInit /\ PoolInit
SpecServer == InitServer /\ [][ServerNext]_vars

\* the server's input queue, the receiver that fills it, the worker pool
\* that drains it, the metrics printer and the stop signal; server.py line
\* 43 takes the policy of the input queue from the configuration
InitPool ==
    /\ max_size \in 1..MaxCap
    /\ drop_policy \in {"oldest", "newest"}
    /\ QStart
    /\ ClientInit /\ MetricsInit /\ SenderInit /\ PoolInit
SpecPool == InitPool /\ [][PoolNext]_vars

\* the worker pool with each of its threads scheduled again and again;
\* nothing forces the stop signal
FairSpecPool ==
    /\ InitPool
    /\ [][PoolNext]_vars
    /\ WF_vars(ReceiverPut)
    /\ \A w \in Threads : WF_vars(WorkerStep(w))
    /\ WF_vars(PrinterStep)

\* the two receiving ends of the transport: the server's main thread with
\* the input queue it fills and the signal handler that stops it, and the
\* client's main loop polling for results
InitTransport ==
    /\ max_size \in 1..MaxCap
    /\ drop_policy \in {"oldest", "newest"}
    /\ QStart
    /\ ClientInit /\ MetricsInit /\ SenderInit /\ PoolInit
SpecTransport == InitTransport /\ [][TransportNext]_vars

\* the same with both main threads scheduled again and again; nothing
\* forces a signal or a message
FairSpecTransport ==
    /\ InitTransport
    /\ [][TransportNext]_vars
    /\ WF_vars(ServerMainStep)
    /\ WF_vars(ClientPollStep)

\* a frame's way from the server's input queue through the worker pool, the
\* output queue, the result sender and the egress channel to the client's
\* main loop, its result queue and the result handler
\* server.py line 43: the policy of the input queue is the configuration's
\* default
InitPipeline ==
    /\ max_size \in 1..MaxCap
    /\ drop_policy = "oldest"
    /\ QStart
    /\ ClientInit /\ MetricsInit /\ SenderInit /\ PoolInit
SpecPipeline == InitPipeline /\ [][PipelineNext]_vars

\* the rate refresh of record_frame on windows of up to MaxStamps timestamps
InitFps == QParked /\ ClientInit /\ FpsInit /\ SenderInit /\ PoolInit
SpecFps == InitFps /\ [][FpsNext]_vars

\* the records of both channels, from the queue they leave to the queue
\* they reach
InitWire ==
    /\ max_size \in 1..MaxCap
    /\ drop_policy \in {"oldest", "newest"}
    /\ QStart
    /\ ClientInit /\ MetricsInit /\ SenderInit /\ PoolInit
SpecWire == InitWire /\ [][WireNext]_vars

\* ------------------------------------------------------------------ claims
\* the only thread that has called the queue so far, back from its call,
\* no get and no clear having been issued
SingleCallerAfterPuts ==
    /\ Cardinality(callers) = 1
    /\ nget = 0
    /\ nclear = 0
    /\ \A t \in callers : pc[t] = "idle"

\* the items first..last in put order
Items(first, last) == [i \in 1..(last - first + 1) |-> first + i - 1]

\* C1: under any interleaving of put, get and clear by the calling threads
\* and for every drop policy, size() is never greater than the capacity
C1_SizeWithinCapacity == size <= max_size

\* a full queue that has dropped, with both threads, a get and a clear
\* having run
C1_Witness ==
    /\ size = max_size
    /\ frames_dropped > 0
    /\ callers = Threads
    /\ nget > 0
    /\ nclear > 0

\* C2: DropOldest, one caller: after the puts of 1..C the queue holds 1..C
\* and nothing was dropped; after one more put, of C+1, that put has
\* returned True, the queue holds 2..C+1 in order and frames_dropped is 1
C2_DropOldestEvictsHead ==
    (drop_policy = "oldest" /\ SingleCallerAfterPuts) =>
        /\ nput = max_size =>
            /\ queue = Items(1, max_size)
            /\ frames_dropped = 0
        /\ nput = max_size + 1 =>
            /\ \A t \in callers : ret[t] = PutRet(TRUE)
            /\ queue = Items(2, max_size + 1)
            /\ frames_dropped = 1

\* the single caller is back from put number C+1 on a queue of capacity
\* C > 1 under DropOldest
C2_Witness ==
    /\ drop_policy = "oldest"
    /\ SingleCallerAfterPuts
    /\ max_size > 1
    /\ nput = max_size + 1
    /\ frames_dropped = 1

\* C3: a policy other than "oldest", one caller: every put on a queue that
\* holds C elements returns False, leaves the queue holding 1..C in order
\* and adds exactly 1 to frames_dropped
C3_DropNewestRejects ==
    (drop_policy # "oldest" /\ SingleCallerAfterPuts /\ nput > max_size) =>
        /\ \A t \in callers : ret[t] = PutRet(FALSE)
        /\ queue = Items(1, max_size)
        /\ frames_dropped = nput - max_size

\* the single caller is back from a rejected put on a queue of capacity
\* C > 1, under a policy that is not "oldest"
C3_Witness ==
    /\ drop_policy # "oldest"
    /\ SingleCallerAfterPuts
    /\ max_size > 1
    /\ nput = max_size + 1
    /\ frames_dropped = 1

\* C4: DropOldest, any interleaving: every put returns True and the item
\* it was given has been inserted when the call returns
C4_PutOldestAlwaysRetains ==
    \A t \in Threads :
        (drop_policy = "oldest" /\ pc[t] = "idle" /\ ret[t].op = "put") =>
            /\ ret[t].ok
            /\ arg[t] \in inserted

\* C5: no item is returned by two get calls, and the number of non-None
\* get results equals the number of items that were inserted, not evicted
\* and are no longer in the queue (once the queue is drained: the number of
\* items it retained)
C5_NoDoubleDelivery ==
    /\ \A t1, t2 \in Threads :
       \A i \in DOMAIN got[t1] :
       \A j \in DOMAIN got[t2] :
            (t1 # t2 \/ i # j) => got[t1][i] # got[t2][j]
    /\ SumLen(got, Threads) =
            Cardinality(inserted \ (evicted \cup Range(queue)))

\* every thread has received an item and the queue is drained
C5_Witness ==
    /\ \A t \in Threads : Len(got[t]) > 0
    /\ Cardinality(inserted) >= Cardinality(Threads)
    /\ queue = <<>>
    /\ \A t \in Threads : pc[t] = "idle"

\* C6: a connection failure never ends the capture thread: it has ended
\* only if the stop signal was set
C6_ConnectFailureNeverFatal ==
    cap_pc \in {"exited", "stopped"} => stop_event

\* C7: no tracker method tries to acquire the lock while its own thread
\* holds it
C7_NoSelfAcquire ==
    \A t \in Threads : ~(m_pc[t] = "acquire" /\ lock = t)

\* C8: the capture loop is never waiting in its put on a full outbound
\* queue
C8_ProducerNeverWaits ==
    ~(cap_pc = "put" /\ Len(frame_queue) >= QueueSize)

\* the run loop has ended and the source handle is not open
CaptureStopped == cap_pc \in {"stopped", "exited"} /\ capture # "open"

\* C9: once the stop signal is set the capture thread eventually reaches
\* Stopped
C9_StopLeadsToStopped == stop_event ~> CaptureStopped

\* C10: the server's result sender is never waiting in send on a socket
\* that cannot take the message
C10_SendNeverWaits ==
    ~(s_pc = "send" /\ send_open /\ ~EgressCanAccept)

\* C11: a frame whose payload is missing, undecodable or no image, or on
\* which the model raises, yields no result and is let go of by the worker
\* that took it, and a worker has left its loop only if the stop signal is
\* set
C11_BadFrameNeverStopsWorker ==
    /\ \A w \in Threads : w_pc[w] = "stopped" => w_stop
    /\ \A r \in emitted : r.frame_id \notin failed
    /\ \A w \in Threads : w_frame[w] \notin failed

\* a worker has taken two frames, the first failed, and it has put the
\* result of the second
C11_Witness ==
    \E w \in Threads :
        /\ Len(got[w]) = 2
        /\ got[w][1] \in failed
        /\ \E r \in emitted : r.worker = w /\ r.frame_id = got[w][2]

\* every worker thread has ended
WorkersStopped == \A w \in Threads : w_pc[w] = "stopped"

\* C12: once the stop signal is set every worker thread eventually ends
C12_StopLeadsToWorkersStopped == w_stop ~> WorkersStopped

\* C13: the frames handed to the outbound queue carry 0, 1, 2, ... in
\* this order, and frame_id is the number of frames handed over, whatever
\* reconnects and exceptions came in between
C13_FrameIdsCountUp ==
    /\ Len(handed) = frame_id
    /\ \A i \in DOMAIN handed : handed[i] = i - 1

\* a frame, a reconnect, a frame, an exception in the loop and one more
\* frame have happened in this order
C13_Witness ==
    /\ phase = 5
    /\ Len(handed) >= 3

\* the waits of the attempts 1 to 5 with base 2 and cap 30
BackoffTable == <<2, 4, 8, 16, 30>>

\* base 2 doubled n - 1 times
RECURSIVE Doubled(_)
Doubled(n) == IF n <= 1 THEN 2 ELSE 2 * Doubled(n - 1)

\* C14: the wait of attempt n is the smaller of 2 doubled n - 1 times and
\* 30: 2, 4, 8, 16, 30 for the attempts 1 to 5, and never more than 30
C14_BackoffCapped ==
    cap_pc = "backoff" =>
        /\ reconnect_attempts >= 1
        /\ wait_time <= 30
        /\ wait_time = (IF Doubled(reconnect_attempts) < 30
                        THEN Doubled(reconnect_attempts) ELSE 30)
        /\ reconnect_attempts <= Len(BackoffTable) =>
                wait_time = BackoffTable[reconnect_attempts]

\* the fifth consecutive attempt is waiting
C14_Witness ==
    /\ cap_pc = "backoff"
    /\ reconnect_attempts = 5
    /\ wait_time = 30

\* C15: the attempt counter goes up by exactly 1 in every reconnection, is
\* left alone by a connect that fails, and changes in no other step but a
\* connect that succeeds, which sets it to 0
C15_AttemptCounterMonotonic ==
    [][ /\ (cap_pc = "reconnect" /\ cap_pc' # "reconnect") =>
                reconnect_attempts' = reconnect_attempts + 1
        /\ (cap_pc # "reconnect") =>
                \/ reconnect_attempts' = reconnect_attempts
                \/ /\ cap_pc \in {"connect_init", "connect_re"}
                   /\ capture' = "open"
                   /\ reconnect_attempts' = 0 ]_vars

\* three reconnections in a row failed, then a connect succeeded and the
\* counter is back at 0
C15_Witness ==
    /\ cap_pc = "loop"
    /\ capture = "open"
    /\ reconnect_attempts = 0
    /\ wait_time = 8

\* the items that the thread of the latest put has put after the last put
\* of every other thread: all of them are this one producer's
OneProducerItems ==
    {i \in 1..nput : \A t \in Threads : arg[t] = nput \/ arg[t] < i}

\* the items returned by get so far
AllGot == UNION {Range(got[t]) : t \in Threads}

\* C16: of two items a, b of one producer, a put before b, a precedes b
\* in the queue and in what a thread has got, and b is never returned
\* while a is still queued; so a, if returned at all, is returned first
C16_FifoAmongRetained ==
    \A a, b \in OneProducerItems :
        a < b =>
            /\ \A i, j \in DOMAIN queue :
                    (queue[i] = a /\ queue[j] = b) => i < j
            /\ b \in AllGot => a \notin Range(queue)
            /\ \A t \in Threads : \A i, j \in DOMAIN got[t] :
                    (got[t][i] = a /\ got[t][j] = b) => i < j

\* both threads have put, an item was evicted, and two items of one
\* producer have both been returned
C16_Witness ==
    /\ \A t \in Threads : arg[t] > 0
    /\ evicted # {}
    /\ \E a, b \in OneProducerItems : a < b /\ {a, b} \subseteq AllGot

\* thread p is the only one that has put and is between two puts, thread c
\* the only one that has got, the policy is "oldest" and nothing was
\* cleared
OneProducerOneConsumer(p, c) ==
    /\ p # c
    /\ drop_policy = "oldest"
    /\ nclear = 0
    /\ arg[c] = 0
    /\ got[p] = <<>>
    /\ pc[p] = "idle"

\* the ids below one that c has seen and that c has not seen
Skipped(c) ==
    {i \in 1..nput : i \notin Range(got[c]) /\ \E j \in Range(got[c]) : i < j}

\* the items put that the queue rejected or evicted
Lost == ((1..nput) \ inserted) \cup evicted

\* C17: one producer, one consumer, DropOldest: the ids the consumer sees
\* are strictly increasing, every id it skipped was rejected or evicted by
\* the queue, and the queue has counted one drop for each such item
C17_GapsAreCountedDrops ==
    \A p, c \in Threads :
        OneProducerOneConsumer(p, c) =>
            /\ \A i, j \in DOMAIN got[c] : i < j => got[c][i] < got[c][j]
            /\ Skipped(c) \subseteq Lost
            /\ Cardinality(Lost) = frames_dropped

\* the consumer has seen two ids with a gap between them
C17_Witness ==
    \E p, c \in Threads :
        /\ OneProducerOneConsumer(p, c)
        /\ Len(got[c]) = 2
        /\ Skipped(c) # {}
        /\ frames_dropped > 0

\* C18: every result put on the output queue carries the stream name and
\* the frame id of a frame that the worker putting it took from the input
\* queue, a frame that was admitted to that queue
C18_ResultEchoesFrame ==
    /\ \A r \in emitted :
        /\ r.frame_id \in Range(got[r.worker])
        /\ r.frame_id \in inserted
        /\ r.stream_name = StreamOf(r.frame_id)
    /\ \A i \in DOMAIN out_queue :
        \E r \in emitted : /\ r.frame_id = out_queue[i].frame_id
                           /\ r.stream_name = out_queue[i].stream_name

\* each worker has put a result, for frames of two streams
C18_Witness ==
    /\ \A w \in Threads : \E r \in emitted : r.worker = w
    /\ \E r1, r2 \in emitted : r1.stream_name # r2.stream_name

\* C19: when the input queue has counted a drop, the tracker's
\* dropped_frames is above 0 and so is the drop rate it reports
C19_DropsReachTracker ==
    frames_dropped > 0 => (dropped_frames > 0 /\ get_drop_rate[1] > 0)

\* C20: the step in which send_frame rejects a frame adds 1 to a counter
\* of the client
C20_RejectedSendCounted ==
    [][ (main_pc = "send" /\ main_pc' # "send" /\ ~send_frame_ok) =>
            \/ frames_sent' = frames_sent + 1
            \/ results_received' = results_received + 1
            \/ results_saved' = results_saved + 1
            \/ frame_id' = frame_id + 1 ]_vars

\* C21: a get that ends on a queue that was empty for its whole wait
\* returns None and leaves the queue, frames_added and frames_dropped as
\* they were
C21_GetTimeoutReturnsNone ==
    [][ \A t \in Threads :
            (pc[t] = "get_wait" /\ pc'[t] = "idle" /\ Len(queue) = 0) =>
                /\ ret'[t] = GetRet(0)
                /\ queue' = queue
                /\ frames_added' = frames_added
                /\ frames_dropped' = frames_dropped ]_vars

\* a get has returned None on a queue that had taken and dropped items
\* before
C21_Witness ==
    \E t \in Threads :
        /\ pc[t] = "idle"
        /\ ret[t] = GetRet(0)
        /\ queue = <<>>
        /\ frames_added > 0
        /\ frames_dropped > 0

\* C22: a receive that finds no message within its timeout is quiet at
\* both ends: the client's receive_result returns None, nothing going to
\* the result queue, and the server's receive loop goes round with no put
\* on the input queue; each returns when its timeout ends
C22_ReceiveTimeoutIsQuiet ==
    [][ /\ ( /\ main_pc = "receive"
             /\ main_pc' \in {"loop", "result_put"}
             /\ result_buf = <<>> ) =>
                /\ main_pc' = "loop"
                /\ main_result' = -1
                /\ result_queue' = result_queue
                /\ results_received' = results_received
        /\ ( /\ r_pc = "poll"
             /\ r_pc' # "poll"
             /\ ingest_buf = <<>> ) =>
                /\ r_pc' = "loop"
                /\ nrecv' = nrecv
                /\ nput' = nput
                /\ pc' = pc
                /\ queue' = queue
                /\ frames_added' = frames_added
                /\ frames_dropped' = frames_dropped ]_vars

\* both ends are in a poll with nothing on their wire, each having received
\* a message before
C22_Witness ==
    /\ main_pc = "receive"
    /\ result_buf = <<>>
    /\ results_received > 0
    /\ h_pc = "none"
    /\ r_pc = "poll"
    /\ ingest_buf = <<>>
    /\ nrecv > 0

\* C23: once InferenceServer.stop has been invoked the server's receive
\* loop eventually exits
C23_StopLeadsToReceiveExit == (h_pc # "none") ~> (r_pc = "exited")

\* C30 as stated: under "oldest" a put that displaces the head increments
\* frames_added as well as frames_dropped, so that with one caller and no
\* get or clear every put has counted as added
C30_DisplacingPutCountsBoth ==
    (drop_policy = "oldest" /\ SingleCallerAfterPuts) =>
        /\ frames_added = nput
        /\ frames_dropped = nput - Min(nput, max_size)

\* C30 as amended: under "oldest" a put on a full queue that displaces the
\* head increments frames_dropped only; no step of it writes frames_added,
\* which counts the puts that found room (one caller, n puts, capacity C:
\* frames_added = min(n, C) and frames_dropped = n - min(n, C))
C30_DisplacingPutCountsDropOnly ==
    /\ [](( drop_policy = "oldest" /\ SingleCallerAfterPuts) =>
            /\ frames_added = Min(nput, max_size)
            /\ frames_dropped = nput - Min(nput, max_size))
    /\ [][ \A t \in Threads :
            (/\ drop_policy = "oldest"
             /\ pc[t] \in {"evict_get", "evict_put", "dropped_load", "dropped_store"}
             /\ pc'[t] # pc[t]) =>
                /\ frames_added' = frames_added
                /\ (pc[t] = "dropped_store" /\ callers = {t}) =>
                        frames_dropped' = frames_dropped + 1 ]_vars

\* the single caller is back from a put that displaced the head of a full
\* queue of capacity C > 1
C30_Witness ==
    /\ drop_policy = "oldest"
    /\ SingleCallerAfterPuts
    /\ max_size > 1
    /\ nput > max_size
    /\ \A t \in callers : ret[t] = PutRet(TRUE)
    /\ frames_dropped > 0
    /\ frames_added = max_size

\* the step in which thread t runs the body of the record method `name`
Records(t, name) ==
    /\ m_pc[t] = "body"
    /\ m_inner[t] = 0
    /\ m_op[t].name = name
    /\ m_pc'[t] = "release"

\* window w2 is window w1 after one entry was recorded: Appended to a
\* window with room, the oldest entry gone and the rest kept in order from
\* a full one
RolledOnce(w1, w2) ==
    IF Len(w1) < WindowSize
    THEN Len(w2) = Len(w1) + 1 /\ SubSeq(w2, 1, Len(w1)) = w1
    ELSE Len(w2) = WindowSize /\ SubSeq(w2, 1, WindowSize - 1) = Tail(w1)

\* C25: each rolling window (latencies, frame timestamps, queue depths)
\* holds at most window_size entries in every reachable state; recording
\* into a full window discards exactly the oldest entry; total_frames and
\* dropped_frames never decrease
C25_WindowsBounded ==
    /\ [](/\ Len(latencies) <= WindowSize
          /\ Len(frame_timestamps) <= WindowSize
          /\ Len(queue_depths) <= WindowSize)
    /\ [][ /\ \A t \in Threads :
                /\ Records(t, "record_latency") =>
                      /\ RolledOnce(latencies, latencies')
                      /\ latencies'[Len(latencies')] = m_op[t].arg
                /\ Records(t, "record_frame") =>
                      /\ RolledOnce(frame_timestamps, frame_timestamps')
                      /\ frame_timestamps'[Len(frame_timestamps')] = now'
                /\ Records(t, "record_queue_depth") =>
                      /\ RolledOnce(queue_depths, queue_depths')
                      /\ queue_depths'[Len(queue_depths')] = m_op[t].arg
           /\ total_frames' >= total_frames
           /\ dropped_frames' >= dropped_frames ]_vars

\* all record calls so far went to one window, more of them than the window
\* holds, and every thread is back from its call
C25_Witness ==
    /\ \A t \in Threads : m_pc[t] = "idle"
    /\ nrecords > WindowSize
    /\ \/ /\ Len(latencies) = WindowSize
          /\ latencies[1] # latencies[WindowSize]
          /\ total_frames = 0 /\ dropped_frames = 0 /\ queue_depths = <<>>
       \/ /\ Len(frame_timestamps) = WindowSize
          /\ total_frames = nrecords
          /\ latencies = <<>> /\ queue_depths = <<>>

\* thread t has computed the value get_drop_rate returns and still holds
\* the lock, so the counters are the ones it read
DropRateComputed(t) ==
    /\ m_op[t].name = "get_drop_rate"
    /\ m_inner[t] = 0
    /\ m_pc[t] = "release"

\* two fractions denote the same number
FracEq(a, b) == a[1] * b[2] = b[1] * a[2]

\* C27: the drop rate returned is dropped / (dropped + total) * 100 for the
\* lifetime counters dropped_frames and total_frames, it is 0 when both
\* are 0, and it lies between 0 and 100
C27_DropRate ==
    \A t \in Threads : DropRateComputed(t) =>
        /\ m_ret[t][2] > 0
        /\ IF dropped_frames = 0 /\ total_frames = 0
           THEN m_ret[t][1] = 0
           ELSE FracEq(m_ret[t], <<dropped_frames * 100, dropped_frames + total_frames>>)
        /\ 0 <= m_ret[t][1]
        /\ m_ret[t][1] <= 100 * m_ret[t][2]

\* get_drop_rate has computed a rate strictly between 0 and 100
C27_Witness ==
    \E t \in Threads :
        /\ DropRateComputed(t)
        /\ dropped_frames > 0
        /\ total_frames > dropped_frames
        /\ m_ret[t][1] > 0
        /\ m_ret[t][1] < 100 * m_ret[t][2]

\* the rate the claim states for window ts, per second, timestamps in tenths
StatedRate(ts) ==
    LET span == ts[Len(ts)] - ts[1]
    IN IF span > 0 THEN <<10 * Len(ts), span>> ELSE Zero

\* C26: the rate a refresh computes is (number of timestamps in the
\* window) / (newest - oldest) when that span is positive and 0 otherwise,
\* a window of fewer than two timestamps included; for 10 timestamps spaced
\* 0.1 s apart it is 10/0.9
C26_RateFormula ==
    /\ [][ \A t \in Threads :
            (m_pc[t] = "fps_check" /\ last_fps_update' # last_fps_update) =>
                /\ current_fps'[2] > 0
                /\ FracEq(current_fps', StatedRate(frame_timestamps))
                /\ Len(frame_timestamps) < 2 => current_fps'[1] = 0 ]_vars
    /\ [](\A t \in Threads :
            (m_pc[t] = "release" /\ last_fps_update = now
                /\ \E s \in 0..MaxStart : frame_timestamps = Spaced(10, s, 1)) =>
                    FracEq(current_fps, <<100, 9>>))

\* the rate was refreshed for 10 timestamps spaced 0.1 s apart
C26_Witness ==
    \E t \in Threads :
        /\ m_pc[t] = "release"
        /\ last_fps_update = now
        /\ frame_timestamps = Spaced(10, 0, 1)
        /\ current_fps = <<100, 9>>

\* the workers that have put a result and not yet finished record_frame
Recording == {w \in Threads : w_pc[w] \in {"latency", "frame"}}

\* worker w moves from position a to position b
WorkerMoves(w, a, b) == w_pc[w] = a /\ w_pc'[w] = b

\* C28: for each frame a worker takes and the model returns for, the worker
\* puts exactly one result, then records exactly one latency sample and
\* then exactly one processed frame; for a skipped frame it puts and records
\* nothing; so total_frames is the number of result puts less those whose
\* worker is still about to record
C28_OneResultOneRecord ==
    /\ [](/\ total_frames = Cardinality(emitted) - Cardinality(Recording)
          /\ Len(latencies) =
                Min(WindowSize, Cardinality(emitted)
                                  - Cardinality({w \in Threads : w_pc[w] = "latency"}))
          /\ \A r \in emitted : r.frame_id \notin failed
          /\ \A w \in Threads : \A i \in 1..Len(got[w]) :
                \/ got[w][i] \in failed
                \/ \E r \in emitted : r.worker = w /\ r.frame_id = got[w][i]
                \/ w_frame[w] = got[w][i] /\ w_pc[w] \in {"depth", "compute"})
    /\ [][ /\ \A w \in Threads :
                /\ WorkerMoves(w, "compute", "latency") =>
                      /\ Cardinality(emitted') = Cardinality(emitted) + 1
                      /\ \E r \in emitted' \ emitted :
                            r.worker = w /\ r.frame_id = w_frame[w]
                      /\ latencies' = latencies
                      /\ total_frames' = total_frames
                /\ (WorkerMoves(w, "compute", "loop") \/ WorkerMoves(w, "get", "loop")) =>
                      /\ emitted' = emitted
                      /\ out_queue' = out_queue
                      /\ latencies' = latencies
                      /\ total_frames' = total_frames
                /\ (w_pc[w] = "latency" /\ w_pc'[w] # "latency") =>
                      /\ w_pc'[w] = "frame"
                      /\ RolledOnce(latencies, latencies')
                      /\ emitted' = emitted
                      /\ total_frames' = total_frames
                /\ (w_pc[w] = "frame" /\ w_pc'[w] # "frame") =>
                      /\ w_pc'[w] = "loop"
                      /\ total_frames' = total_frames + 1
                      /\ latencies' = latencies
                      /\ emitted' = emitted
           /\ emitted' # emitted =>
                \E w \in Threads : WorkerMoves(w, "compute", "latency")
           /\ total_frames' # total_frames =>
                \E w \in Threads : WorkerMoves(w, "frame", "loop") ]_vars

\* one frame was skipped, the other has its result put and its latency and
\* frame recorded, and every worker is back at the head of its loop
C28_Witness ==
    /\ Cardinality(failed) = 1
    /\ Cardinality(emitted) = 1
    /\ total_frames = 1
    /\ Len(latencies) = 1
    /\ \A w \in Threads : w_pc[w] = "loop"

Unstamped(rec) ==
    PyDict([k \in DOMAIN rec.d \ {"recv_timestamp"} |-> rec.d[k]])

\* the frame records the client has serialized or may yet serialize
FramesToSend == {EncodedFrame(handed[j]) : j \in 1..Len(handed)}

\* C24: deserializing the bytes of a serialized frame record or result
\* record yields a record with the same fields and values, and one send
\* yields exactly one receivable unit: every message on a channel loads to
\* a record that was serialized, every record received is one, and the
\* messages sent are those in flight and those received
C24_RoundTrip ==
    /\ \A i \in 1..Len(ingest_buf) : Loads(ingest_buf[i]) \in FramesToSend
    /\ \A i \in 1..Len(queue) : Unstamped(queue[i]) \in FramesToSend
    /\ \A i \in 1..Len(result_buf) : Loads(result_buf[i]) \in emitted
    /\ \A i \in 1..Len(result_queue) : result_queue[i] \in emitted
    /\ frames_sent = Len(ingest_buf) + nrecv
    /\ nrecv = frames_added + frames_dropped
    /\ nresults = Len(result_buf) + results_received
    /\ results_received = Len(result_queue)

\* a frame record has reached the server's input queue and a result record
\* with two detections the client's result queue
C24_Witness ==
    /\ nrecv > 0
    /\ Len(queue) > 0
    /\ queue[1].d.frame.t = "bytes"
    /\ queue[1].d.encoded = PyBool(TRUE)
    /\ results_received > 0
    /\ \E i \in 1..Len(result_queue) :
          Len(result_queue[i].d.result.d.detections.items) = 2

\* thread t is inside clear()
InClear(t) == pc[t] \in {"clear_check", "clear_get"}

\* C40: clear() with no concurrent put leaves the queue empty and leaves
\* frames_added and frames_dropped unchanged; clear() on an empty queue
\* changes nothing. No step of clear writes a counter, the step on which
\* clear returns leaves the queue empty, and a single caller back from
\* clear finds size() = 0
C40_ClearEmpties ==
    /\ [](\A t \in Threads :
            (callers = {t} /\ pc[t] = "idle" /\ ret[t] = ClearRet) => size = 0)
    /\ [][ \A t \in Threads :
            (InClear(t) /\ pc'[t] # pc[t]) =>
                /\ frames_added' = frames_added
                /\ frames_dropped' = frames_dropped
                /\ queue = <<>> => queue' = <<>>
                /\ pc'[t] = "idle" => (queue' = <<>> /\ ret'[t] = ClearRet) ]_vars

\* the single caller is back from a clear() that emptied a queue of two
\* items, with the counters as its puts left them
C40_Witness ==
    \E t \in Threads :
        /\ callers = {t}
        /\ pc[t] = "idle"
        /\ ret[t] = ClearRet
        /\ queue = <<>>
        /\ nget = 0
        /\ Cardinality(evicted) = 2
        /\ frames_added = 2
        /\ frames_dropped = 0

\* thread t is the only one that has called the queue, it is back from its
\* call and clear() was never called
OnlyCallerIdle(t) ==
    /\ callers = {t}
    /\ pc[t] = "idle"
    /\ nclear = 0

\* C38: after any sequence of put and get calls made by one thread,
\* frames_added + frames_dropped is the number of put calls, and size()
\* plus the number of get results that are not None is the number of puts
\* that returned True less the number of evicted items
C38_SingleCallerConservation ==
    \A t \in Threads : OnlyCallerIdle(t) =>
        /\ frames_added + frames_dropped = nput
        /\ size + Len(got[t]) = Cardinality(inserted) - Cardinality(evicted)
        /\ ret[t].op = "put" => (ret[t].ok <=> arg[t] \in inserted)
        /\ (drop_policy = "oldest") => Cardinality(inserted) = nput
        /\ (drop_policy # "oldest") => Cardinality(inserted) = frames_added

\* one thread has made three puts on a queue that was full at the third
\* and a get that returned an item
C38_Witness ==
    \E t \in Threads :
        /\ OnlyCallerIdle(t)
        /\ nput = 3
        /\ frames_dropped > 0
        /\ Len(got[t]) > 0
        /\ size > 0


\* C35: a put discards only from a queue that holds max_size items: the
\* step that evicts the head (line 39) and the step on which the new item is
\* rejected (queue.Full at line 29 under drop-newest, queue.Empty at line 39
\* or queue.Full at line 40 under drop-oldest) are taken with exactly
\* max_size items in the queue
C35_DiscardOnlyWhenFull ==
    [][ \A t \in Threads :
          /\ (pc[t] = "evict_get" /\ pc'[t] = "evict_put")
                => Len(queue) = max_size
          /\ (pc[t] \in {"put_try", "evict_get", "evict_put"}
                /\ pc'[t] = "dropped_load" /\ ~pending'[t])
                => Len(queue) = max_size ]_vars


\* C34: on a drop-oldest queue used by several producers and consumers,
\* once every call has returned frames_dropped is the number of items given
\* to put that are neither in the queue nor were returned by a get
C34_DropAccountingExact ==
    (drop_policy = "oldest" /\ nclear = 0 /\ \A t \in Threads : pc[t] = "idle")
        => frames_dropped = nput - Len(queue) - (Len(got[1]) + Len(got[2]))


\* C32: the rate is recomputed at most once per half second: the stored
\* rate changes only on a step that moves last_fps_update, such a step moves
\* it forward by at least FpsUpdateTicks, and a frame recorded less than
\* FpsUpdateTicks after the last recomputation leaves what get_fps returns
\* as it was
C32_RateRefreshGated ==
    [][ /\ current_fps' # current_fps => last_fps_update' # last_fps_update
        /\ last_fps_update' # last_fps_update =>
              /\ total_frames' = total_frames + 1
              /\ last_fps_update' = now'
              /\ last_fps_update' - last_fps_update >= FpsUpdateTicks
        /\ (total_frames' = total_frames + 1
              /\ now' - last_fps_update < FpsUpdateTicks) =>
              /\ get_fps' = get_fps
              /\ last_fps_update' = last_fps_update ]_vars

\* three frames recorded: the second one recomputed the rate half a second
\* after the tracker was built, the third came a tenth later and left it
C32_Witness ==
    /\ total_frames = 3
    /\ last_fps_update = FpsUpdateTicks
    /\ current_fps # Zero
    /\ frame_timestamps # <<>>
    /\ frame_timestamps[Len(frame_timestamps)] = FpsUpdateTicks + 1


\* the frame numbered i was taken by a worker whose iteration on it is over
Finished(i) ==
    \E w \in Threads : i \in Range(got[w]) /\ w_frame[w] # i

\* C36: while the stop signal is not set, every frame admitted to the
\* server's input queue is eventually evicted by the drop policy or taken
\* and finished by a worker
C36_AdmittedFramesFinish ==
    \A i \in 1..MaxPoolFrames :
        (i \in inserted) ~> (w_stop \/ i \in evicted \/ Finished(i))


\* C37: InferenceServer.stop runs to completion: once invoked it has set
\* the stop signal, it stops the transport only after that, and it
\* eventually reaches the process exit with the running flag cleared and
\* the sockets closed
C37_StopCompletes ==
    /\ [](h_pc # "none" => w_stop)
    /\ [](h_pc \in {"get_summary", "get_drop_rate", "drop_rate_body", "exited"}
            => (~running /\ ~send_open))
    /\ (h_pc # "none") ~> (h_pc = "exited" /\ ~running /\ ~send_open)


\* the client's receiving side: the main loop polling for results, the
\* result handler thread that saves them, the stop signal
ResultsNext ==
    \/ ServerDelivers
    \/ ClientPollStep
    \/ ResultHandlerStep
    \/ ClientStop
SpecResults == InitClient /\ [][ResultsNext]_vars

\* C33: a failure of _save_json never ends the result-handling loop: from
\* the save the handler goes back to the head of its loop, directly when
\* the file was written and through the except block of _save_json when it
\* was not, the result being counted either way; its thread ends only at
\* the loop test and only with the stop signal set
C33_SaveFailureNotFatal ==
    /\ [](rh_pc = "stopped" => stop_event)
    /\ [][ /\ (rh_pc = "save" /\ rh_pc' # rh_pc) =>
                /\ rh_pc' \in {"loop", "save_error"}
                /\ Len(saves') = Len(saves) + 1
           /\ (rh_pc = "save_error" /\ rh_pc' # rh_pc) =>
                /\ rh_pc' = "loop"
                /\ results_saved' = results_saved + 1
                /\ result_queue' = result_queue
           /\ (rh_pc # "stopped" /\ rh_pc' = "stopped") =>
                (rh_pc = "loop" /\ stop_event) ]_vars

\* the file of the first result could not be written: the handler is in
\* the except block of _save_json, the second result waits in the queue and
\* the stop signal is not set
C33_Witness ==
    /\ rh_pc = "save_error"
    /\ Len(saves) = 1
    /\ results_saved = 0
    /\ result_queue # <<>>
    /\ ~stop_event

\* the stream identifier and frame number a result carries
Pair(r) == <<r.stream_name, r.frame_id>>
\* no two entries of the sequence of results carry the same pair
NoPairTwice(rs) ==
    \A i, j \in DOMAIN rs : i # j => Pair(rs[i]) # Pair(rs[j])

\* C39: no frame is processed or reported twice: each admitted frame is
\* taken from the input queue at most once, so no two workers compute on
\* the same stream identifier and frame number and at most one result is put
\* for the pair; no two results sent on the egress channel carry the same
\* pair; no two results the client puts on its result queue, and no two the
\* result handler takes, carry the same pair
C39_NoFrameTwice ==
    /\ \A w1, w2 \in Threads :
        \A i \in DOMAIN got[w1] : \A j \in DOMAIN got[w2] :
            (w1 # w2 \/ i # j) => got[w1][i] # got[w2][j]
    /\ \A w1, w2 \in Threads :
        (w1 # w2 /\ w_frame[w1] # 0 /\ w_frame[w2] # 0)
            => Pair(w_meta[w1]) # Pair(w_meta[w2])
    /\ \A r1, r2 \in emitted : Pair(r1) = Pair(r2) => r1 = r2
    /\ NoPairTwice(sent)
    /\ NoPairTwice(saves \o result_queue)

\* two frames of two streams were computed by two workers, both results
\* were sent and the result handler has saved both
C39_Witness ==
    /\ Len(sent) = 2
    /\ Len(saves) = 2
    /\ Pair(saves[1]) # Pair(saves[2])
    /\ \E r1, r2 \in emitted : r1.worker # r2.worker


\* ---------------------------------------------------------------- C31
\* the gate of the capture loop: a read follows only a clock reading at
\* least FrameInterval after last_frame_time, and a shorter one is followed
\* by a sleep that ends no earlier than last_frame_time + FrameInterval
ReadsAreGated ==
    [][/\ (cap_pc = "rate" /\ cap_pc' = "read")
            => now - last_frame_time >= FrameInterval
       /\ (cap_pc = "rate" /\ cap_pc' = "loop")
            => /\ now - last_frame_time < FrameInterval
               /\ now' - last_frame_time >= FrameInterval
               /\ frame_queue' = frame_queue]_vars

\* C31 as stated: while streaming, the source is read only when at least
\* 1/target_rate has passed since the iteration of the previous successful
\* read, the loop sleeps for the remainder otherwise, and so two
\* consecutive emitted frames are never closer than the minimum interval
C31_EmittedFramesSpaced ==
    /\ ReadsAreGated
    /\ [](\A i \in 2..Len(handed) :
            handed[i].put_at - handed[i - 1].put_at >= FrameInterval)

\* C31: while streaming, the source is read only when at least
\* 1/target_rate has passed since the iteration of the previous successful
\* read, the loop sleeps for the remainder otherwise, and so the loop
\* iterations of two consecutive emitted frames are never closer than the
\* minimum interval
C31_IterationsSpaced ==
    /\ ReadsAreGated
    /\ [](\A i \in 2..Len(handed) :
            handed[i].read_at - handed[i - 1].read_at >= FrameInterval)
    /\ [](cap_pc \in {"read", "process", "put"}
            => current_time - last_frame_time >= FrameInterval)

\* two frames emitted closer than the interval, their iterations apart
C31_Witness ==
    /\ Len(handed) >= 2
    /\ handed[2].read_at - handed[1].read_at >= FrameInterval
    /\ handed[2].put_at - handed[1].put_at < FrameInterval

====
